---- MODULE Spec2Model ----
(***************************************************************************)
(* State-machine model of the ol-explorer client: the SdkProvider          *)
(* (src/src/context/SdkContext.tsx), the useBlockchain hook                *)
(* (src/unnamed/part_000), the SDK's account / transaction lookups and the *)
(* transaction list's row press (src/unnamed/part_001).                    *)
(*                                                                         *)
(* React is modelled the way React 18 runs it: the state updates of one    *)
(* synchronous run of a handler are committed together and followed by one *)
(* render, whose effects run with it.  A function created in a render      *)
(* reads the state of THAT render, so every caller of initializeSdk and    *)
(* refreshData passes the closure (the captured state) it calls through.   *)
(***************************************************************************)
EXTENDS Integers, Sequences, FiniteSets, TLC

\* ------------------------------------------------------------- bounds ----
\* initializeSdk invocations that may be awaiting client.getLedgerInfo().
MaxInflight == 2
\* sdkConfig.retryDelay in clock ticks (the configuration file is not under src/).
RetryDelay == 2

\* refreshData invocations that may be awaiting an SDK call at once.
MaxCalls == 2
\* refresh cycles that fetch (each fetches the ledger as of its cycle).
MaxCycles == 2

\* hex digits of a canonical address / of a transaction hash (the widths of
\* utils/addressUtils, which is not under src/, scaled down).
AddressWidth == 2
HashWidth == 2

\* live interval timers of the account screen the model can tell apart.
MaxIntervals == 2
\* pending timeouts of one kind (200 ms start-up, 500 ms reset) at once.
MaxTimeouts == 2
\* refreshAccount() calls of the account screen outstanding at once.
MaxOutstanding == 2
\* candidate resource types handed to slugToResourceType at once.
MaxTypes == 2
\* resource types handed to categorizeResourceTypes at once.
MaxCategorized == 3
\* calls of initializeSdk by the retry timer that are told apart.
MaxRetryCalls == 2
\* resources of one account, and account objects delivered to the screen.
MaxResources == 2
MaxDeliveries == 3

\* ------------------------------------------------------------- values ----
Null == "null"
\* A timer that is not set, and one that fires after n more ticks.
NoTimer == [set |-> FALSE, left |-> 0]
TimerIn(n) == [set |-> TRUE, left |-> n]

\* What an awaited SDK call or a constructor can throw: an Error with a
\* message, or a value that is not an Error.
Thrown ==
    { [isError |-> TRUE,  message |-> "Network request failed"],
      [isError |-> FALSE, message |-> ""] }

VARIABLES
    \* ---- SdkProvider (SdkContext.tsx) ----
    provider,      \* the provider's useState cells, as of the last render
    config,        \* sdkConfig: debugMode, retryOnFailure
    mounted,       \* the provider is mounted
    initTimer,     \* the mount effect's 100 ms timer
    retryTimer,    \* the auto-retry effect's timer
    inflight,      \* initializeSdk invocations awaiting client.getLedgerInfo()
    lastStep,      \* the last thing that happened to the provider
    mockFallbackTaken, \* history: the debug-mode fallback has run
    retryCalls,    \* history: the calls of initializeSdk by the retry timer
    \* ---- useBlockchain (part_000) and the blockchain store ----
    hook,            \* the hook's useState cells: isLoading, fetchRequested
    refreshInterval, \* the 30 s interval and the refreshData it captured
    calls,           \* refreshData invocations: where each one is awaiting
    blockchainStore, \* transactions, stats, isLoading, error
    nextCycle,       \* the next refresh cycle to fetch
    sdkCalls,        \* history: the SDK methods each cycle has called
    lastRefresh,     \* the last call of refreshData and whether it fetched
    lastSettled,     \* the last refreshData promise to settle
    hookMounted,     \* the component that uses the hook is mounted
    \* ---- callers of the SDK's lookups, and the transaction list ----
    callers,         \* each caller's lookup: method, argument, where it awaits
    pending,         \* the client requests in flight
    location,        \* where the last row press navigated to
    lastPress,       \* the last row press: its hash and whether it navigated
    \* ---- AccountDetailsScreen (AccountDetails.tsx) ----
    screen,          \* the last render: mounted, isFocused, address, isAutoRefreshing
    isMounted,       \* isMounted.current
    refreshTimerRef, \* refreshTimerRef.current: an interval id, 0 for null
    intervals,       \* the live 10 s intervals and what their callbacks captured
    startTimeouts,   \* the pending 200 ms timeouts of startPolling
    resetTimeouts,   \* the pending 500 ms setIsAutoRefreshing(false) timeouts
    appState,        \* appState.current
    outstanding,     \* refreshAccount() calls that have not settled, by caller
    lastScreenStep,  \* the last step of the screen and the refreshes it started
    \* ---- SearchBar (part_000:100-208) ----
    searches,        \* each run of handleSearch: its query, where it awaits
    searchBar,       \* the useState cells: searchQuery, isSearching, error
    lastSearch,      \* the last run of handleSearch to end, and the calls it made
    \* ---- the resource slug mapper (AccountDetails.tsx:87-174) ----
    types,           \* the candidate resource types, in input order
    slug,            \* the slug to resolve, and the candidate it was derived from
    matchingType,    \* what slugToResourceType returned for types and slug
    \* ---- categorizeResourceTypes (AccountDetails.tsx:693-750) ----
    categorized,     \* the list handed to it and the categories it returned
    \* ---- the active resource type (AccountDetails.tsx:353-489, 632-645) --
    accountData,     \* which account object useAccount returned, 0 for none
    resourceTypes,   \* the memoized list of line 407
    dataLoadedRef,   \* dataLoadedRef.current
    resourceParam,   \* the resource slug of the URL, line 353
    activeResourceType,  \* the useState cell of line 363
    selection        \* who set activeResourceType last

sdkVars == <<provider, config, mounted, initTimer, retryTimer, inflight,
             lastStep, mockFallbackTaken, retryCalls>>
sdkOnlyVars == <<config, mounted, initTimer, retryTimer, inflight,
                 lastStep, mockFallbackTaken, retryCalls>>
hookVars == <<hook, refreshInterval, calls, blockchainStore, nextCycle,
              sdkCalls, lastRefresh, lastSettled, hookMounted>>

lookupVars == <<callers, pending, location, lastPress>>

accountVars == <<screen, isMounted, refreshTimerRef, intervals, startTimeouts,
                 resetTimeouts, appState, outstanding, lastScreenStep>>

searchVars == <<searches, searchBar, lastSearch>>

slugVars == <<types, slug, matchingType, categorized>>

resourceVars == <<accountData, resourceTypes, dataLoadedRef, resourceParam,
                  activeResourceType, selection>>

\* What the actions of one component leave alone.
outsideSdk == <<hookVars, lookupVars, accountVars, searchVars, slugVars,
                resourceVars>>
outsideHook == <<sdkOnlyVars, lookupVars, accountVars, searchVars, slugVars,
                 resourceVars>>
outsideLookups == <<sdkVars, hookVars, accountVars, searchVars, slugVars,
                    resourceVars>>
outsideAccount == <<sdkVars, hookVars, lookupVars, searchVars, slugVars,
                    resourceVars>>
outsideSearch == <<sdkVars, hookVars, accountVars, slugVars, resourceVars>>
outsideSlugs == <<sdkVars, hookVars, lookupVars, accountVars, searchVars,
                  resourceVars>>
outsideResources == <<sdkVars, hookVars, lookupVars, accountVars, searchVars,
                      slugVars>>

vars == <<sdkVars, hookVars, lookupVars, accountVars, searchVars, slugVars,
          resourceVars>>

\* ================================================= blockchain store ======
\* store/blockchainStore is not under src/; its actions are whole-field
\* replacements (spec 4.3).  A fetched value is named by the refresh cycle that
\* fetched it; 0 is the value before any fetch (no transactions, null stats).
BlockchainStoreInitial ==
    [ transactions |-> 0,
      stats        |-> [blockHeight |-> 0, epoch |-> 0, chainId |-> 0],
      isLoading    |-> FALSE,
      error        |-> Null ]

setTransactions(store, list) == [store EXCEPT !.transactions = list]
setStats(store, partial) ==
    [store EXCEPT !.stats =
        [f \in DOMAIN store.stats |->
            IF f \in DOMAIN partial THEN partial[f] ELSE store.stats[f]]]
setLoading(store, flag) == [store EXCEPT !.isLoading = flag]
setError(store, msg) == [store EXCEPT !.error = msg]

\* The closure of an interval that is not set.
NoClosure ==
    [isInitialized |-> FALSE, isLoading |-> FALSE, fetchRequested |-> FALSE]

\* The callers of the SDK's lookups: two submissions of the search bar
\* (part_000:140, 154), which may overlap.
Callers == {"first", "second"}

\* What a lookup resolved with: nothing yet, null, an account or a transaction.
NoResult == [kind |-> "none", text |-> <<>>, state |-> <<>>]
NullResult == [kind |-> "null", text |-> <<>>, state |-> <<>>]

\* addressFromParams when the route has no address, and some addresses.
NoAddress == ""
Addresses == {"0xa", "0xb"}

NoScreenStep == [op |-> "none", refreshCalls |-> 0]

IdleCaller ==
    [method |-> "none", arg |-> <<>>, pc |-> "idle", result |-> NoResult]

NothingSettled ==
    [cycle |-> 0, outcome |-> "none", failed |-> FALSE, at |-> "none",
     thrown |-> Null]

\* ===================================================== SdkProvider =======

\* useState initial values, SdkContext.tsx:41-46.
ProviderInitialState ==
    [ sdk             |-> Null,
      isInitialized   |-> FALSE,
      isInitializing  |-> FALSE,
      error           |-> Null,
      isUsingMockData |-> FALSE,
      sdkClient       |-> Null ]

\* The state a render's closures capture.
ClosureOf(st) ==
    [isInitializing |-> st.isInitializing, isInitialized |-> st.isInitialized]

\* initializeSdk's guard, line 50, on the state its closure captured.
InitGuardReturns(cl) == cl.isInitializing \/ cl.isInitialized

\* Lines 52-54 and 68: the sets before the awaited test call.
InitStartSets(st) ==
    [st EXCEPT !.isInitializing = TRUE, !.error = Null,
               !.isUsingMockData = FALSE]

\* Lines 232-233 and the finally of line 330.
InitSuccessSets(st) ==
    [st EXCEPT !.sdk = "real", !.isInitialized = TRUE,
               !.isInitializing = FALSE]

\* createMockLibraClient() (services/mockSdk, not under src/): the mock
\* client is an in-memory second implementation of the SDK contract; building
\* it does not fail.
MockClientOutcomes == {"created"}

\* Mutant: the fallback installs the mock SDK without flagging mock data.
MockFallbackUnflagged(st, err) ==
    [st EXCEPT !.sdkClient = "mock", !.sdk = "mock", !.isInitialized = TRUE,
               !.error = IF err.isError THEN err.message
                         ELSE "Using mock data in debug mode",
               !.isInitializing = FALSE]

\* Lines 317-320 (the mock SDK is installed) and the finally of line 330.
MockFallbackSets(st, err) ==
    [st EXCEPT !.sdkClient = "mock", !.sdk = "mock", !.isInitialized = TRUE,
               !.isUsingMockData = TRUE,
               !.error = IF err.isError THEN err.message
                         ELSE "Using mock data in debug mode",
               !.isInitializing = FALSE]

\* Lines 321-324: building the mock threw.
MockFailedSets(st, mockErr) ==
    [st EXCEPT !.error = IF mockErr.isError THEN mockErr.message
                         ELSE "Failed to create mock SDK",
               !.isInitializing = FALSE]

\* Lines 325-328 and the finally of line 330: production mode.
ProductionFailureSets(st, err) ==
    [st EXCEPT !.error = IF err.isError THEN err.message
                         ELSE "Failed to initialize SDK",
               !.isInitializing = FALSE]

\* The catch block, lines 234-331.
InitCatch(st, err, mock) ==
    IF config.debugMode
    THEN IF mock = "created" THEN MockFallbackSets(st, err)
                             ELSE MockFailedSets(st, err)
    ELSE ProductionFailureSets(st, err)

\* The auto-retry effect, lines 352-366, with dependencies
\* [isInitializing, isInitialized, error].  `fresh` says that the error cell
\* was given a new Error object (a changed dependency even when the message
\* is the same).  A changed dependency runs the cleanup (clearTimeout) and
\* the effect again.
RetryEffect(old, new, fresh) ==
    IF /\ old.isInitializing = new.isInitializing
       /\ old.isInitialized = new.isInitialized
       /\ old.error = new.error
       /\ ~fresh
    THEN retryTimer
    ELSE IF /\ ~new.isInitializing /\ ~new.isInitialized
            /\ new.error # Null /\ config.retryOnFailure
         THEN TimerIn(RetryDelay)
         ELSE NoTimer

\* One call of initializeSdk through closure cl, on provider state st (the
\* caller may have set cells already in the same run), up to its first await
\* or its return.  ctor is what `new LibraClient(...)` does, lines 60-65.
InitializeSdk(cl, st, ctor, what) ==
    IF InitGuardReturns(cl)
    THEN /\ provider' = st
         /\ retryTimer' = RetryEffect(provider, st, FALSE)
         /\ lastStep' = [op |-> what, init |-> "skipped"]
         /\ UNCHANGED <<inflight, mockFallbackTaken>>
    ELSE IF ctor = "constructed"
    THEN /\ inflight < MaxInflight
         /\ provider' = [InitStartSets(st) EXCEPT !.sdkClient = "real"]
         /\ retryTimer' = RetryEffect(provider, provider', FALSE)
         /\ inflight' = inflight + 1
         /\ lastStep' = [op |-> what, init |-> "started"]
         /\ UNCHANGED mockFallbackTaken
    ELSE \E err \in Thrown, mock \in MockClientOutcomes :
         /\ provider' = InitCatch(InitStartSets(st), err, mock)
         /\ retryTimer' = RetryEffect(provider, provider', TRUE)
         /\ lastStep' = [op |-> what, init |-> "failed"]
         /\ mockFallbackTaken' =
                (mockFallbackTaken \/ (config.debugMode /\ mock = "created"))
         /\ UNCHANGED inflight

\* The mount effect's timer fires, lines 341-343: initializeSdk of the first
\* render.
MountTimerFires(ctor) ==
    /\ UNCHANGED outsideSdk
    /\ mounted /\ initTimer = "pending"
    /\ initTimer' = "fired"
    /\ InitializeSdk(ClosureOf(ProviderInitialState), provider, ctor, "mount")
    /\ UNCHANGED <<config, mounted, retryCalls>>

\* A clock tick: the pending retry timer gets one tick closer.
Tick ==
    /\ UNCHANGED outsideSdk
    /\ mounted /\ retryTimer.set /\ retryTimer.left > 0
    /\ retryTimer' = TimerIn(retryTimer.left - 1)
    /\ lastStep' = [op |-> "tick", init |-> "none"]
    /\ UNCHANGED <<provider, config, mounted, initTimer, inflight,
                   mockFallbackTaken, retryCalls>>

\* The retry timer fires, lines 357-360.  The effect that set it ran in a
\* render with isInitializing = isInitialized = FALSE, and any later change
\* of a dependency cleared it, so its closure is the current state.
RetryTimerFires(ctor) ==
    /\ UNCHANGED outsideSdk
    /\ mounted /\ retryTimer = TimerIn(0)
    /\ InitializeSdk(ClosureOf(provider), provider, ctor, "retry")
    /\ retryCalls' = IF retryCalls < MaxRetryCalls THEN retryCalls + 1
                                                   ELSE retryCalls
    /\ UNCHANGED <<config, mounted, initTimer>>

\* reinitialize(), lines 369-373, called by a consumer of the context.
Reinitialize(ctor) ==
    /\ UNCHANGED outsideSdk
    /\ mounted
    /\ InitializeSdk(ClosureOf(provider),
                     [provider EXCEPT !.isInitialized = FALSE, !.sdk = Null],
                     ctor, "reinitialize")
    /\ UNCHANGED <<config, mounted, initTimer, retryCalls>>

\* The awaited client.getLedgerInfo() of line 71 resolves.  A state update of
\* an unmounted component is dropped.
LedgerInfoResolves ==
    /\ UNCHANGED outsideSdk
    /\ inflight > 0
    /\ inflight' = inflight - 1
    /\ provider' = IF mounted THEN InitSuccessSets(provider) ELSE provider
    /\ retryTimer' = IF mounted THEN RetryEffect(provider, provider', FALSE)
                                ELSE NoTimer
    /\ lastStep' = [op |-> "getLedgerInfo", init |-> "succeeded"]
    /\ UNCHANGED <<config, mounted, initTimer, mockFallbackTaken, retryCalls>>

\* The awaited client.getLedgerInfo() of line 71 rejects.
LedgerInfoRejects(err) ==
    /\ UNCHANGED outsideSdk
    /\ inflight > 0
    /\ inflight' = inflight - 1
    /\ \E mock \in MockClientOutcomes :
         /\ provider' = IF mounted THEN InitCatch(provider, err, mock)
                                   ELSE provider
         /\ mockFallbackTaken' =
                (mockFallbackTaken
                   \/ (mounted /\ config.debugMode /\ mock = "created"))
    /\ retryTimer' = IF mounted THEN RetryEffect(provider, provider', TRUE)
                                ELSE NoTimer
    /\ lastStep' = [op |-> "getLedgerInfo", init |-> "failed"]
    /\ UNCHANGED <<config, mounted, initTimer, retryCalls>>

\* The provider unmounts: the effects' cleanups clear both timers.
Unmount ==
    /\ UNCHANGED outsideSdk
    /\ mounted
    /\ mounted' = FALSE
    /\ initTimer' = IF initTimer = "pending" THEN "cleared" ELSE initTimer
    /\ retryTimer' = NoTimer
    /\ lastStep' = [op |-> "unmount", init |-> "none"]
    /\ UNCHANGED <<provider, config, inflight, mockFallbackTaken, retryCalls>>

LookupsIdle ==
    /\ callers = [c \in Callers |-> IdleCaller]
    /\ pending = {}
    /\ location = [path |-> "/", hash |-> <<>>]
    /\ lastPress = [hash |-> <<>>, navigated |-> FALSE, pressed |-> FALSE]

\* The search bar as it is constructed (part_000:101-103), no search run.
NoSearch == [pc |-> "idle", query |-> <<>>, calls |-> <<>>]
SearchIdle ==
    /\ searches = [c \in Callers |-> NoSearch]
    /\ searchBar = [searchQuery |-> <<>>, isSearching |-> FALSE,
                    error |-> Null]
    /\ lastSearch = [outcome |-> "none", calls |-> <<>>]

\* What slugToResourceType returns when nothing matches, and a type it returns.
NoType == [isNull |-> TRUE, text |-> <<>>]
NoSlug == [given |-> FALSE, text |-> <<>>, from |-> 0]
Unresolved == [resolved |-> FALSE, isNull |-> TRUE, text |-> <<>>]

\* No account has been delivered to the resource list of the screen.
NoParam == [given |-> FALSE, text |-> <<>>]
ResourcesIdle ==
    /\ accountData = 0
    /\ resourceTypes = <<>>
    /\ dataLoadedRef = FALSE
    /\ resourceParam = NoParam
    /\ activeResourceType = NoType
    /\ selection = "none"

\* No slug has been handed to the mapper.
SlugsIdle ==
    /\ types = <<>>
    /\ slug = NoSlug
    /\ matchingType = Unresolved
    /\ categorized = [types |-> <<>>, done |-> FALSE, categories |-> <<>>]

\* No account screen is on display.
AccountIdle ==
    /\ screen = [mounted |-> FALSE, isFocused |-> FALSE, address |-> NoAddress,
                 isAutoRefreshing |-> FALSE,
                 handler |-> [isFocused |-> FALSE, address |-> NoAddress]]
    /\ isMounted = FALSE
    /\ refreshTimerRef = 0
    /\ intervals = {}
    /\ startTimeouts = <<>>
    /\ resetTimeouts = <<>>
    /\ appState = "active"
    /\ outstanding = <<>>
    /\ lastScreenStep = NoScreenStep

HookIdle ==
    /\ hook = [isLoading |-> FALSE, fetchRequested |-> FALSE]
    /\ refreshInterval = [set |-> FALSE, closure |-> NoClosure]
    /\ calls = [c \in 1..MaxCalls |-> [pc |-> "idle", cycle |-> 0]]
    /\ blockchainStore = BlockchainStoreInitial
    /\ nextCycle = 1
    /\ sdkCalls = {}
    /\ lastRefresh = [source |-> "none", fetched |-> FALSE, cycle |-> 0]
    /\ lastSettled = NothingSettled
    /\ hookMounted = TRUE

SdkInit ==
    /\ HookIdle /\ LookupsIdle /\ AccountIdle /\ SearchIdle /\ SlugsIdle
    /\ ResourcesIdle
    /\ provider = ProviderInitialState
    /\ config \in [debugMode : BOOLEAN, retryOnFailure : BOOLEAN]
    /\ mounted = TRUE
    /\ initTimer = "pending"
    /\ retryTimer = NoTimer
    /\ inflight = 0
    /\ lastStep = [op |-> "mounted", init |-> "none"]
    /\ mockFallbackTaken = FALSE
    /\ retryCalls = 0

CtorOutcomes == {"constructed", "throws"}

SdkNext ==
    \/ \E ctor \in CtorOutcomes : MountTimerFires(ctor)
    \/ Tick
    \/ \E ctor \in CtorOutcomes : RetryTimerFires(ctor)
    \/ \E ctor \in CtorOutcomes : Reinitialize(ctor)
    \/ LedgerInfoResolves
    \/ \E err \in Thrown : LedgerInfoRejects(err)
    \/ Unmount

SpecSdk == SdkInit /\ [][SdkNext]_vars

\* The provider with its timers firing and a reachable network: a pending
\* timer fires, the client is constructed and its test call is answered.
SpecSdkLive ==
    /\ SpecSdk
    /\ WF_vars(MountTimerFires("constructed"))
    /\ WF_vars(Tick)
    /\ WF_vars(RetryTimerFires("constructed"))
    /\ WF_vars(LedgerInfoResolves)

\* ===================================================== useBlockchain =====
\* src/unnamed/part_000, lines 7-93.  The hook reads isInitialized and
\* isInitializing from the SdkProvider's context.

\* The state the refreshData of the current render captures (the useCallback
\* of lines 15-65), given the isInitialized of that render.
RefreshClosure(initialized) ==
    [isInitialized  |-> initialized,
     isLoading      |-> hook.isLoading,
     fetchRequested |-> hook.fetchRequested]

\* Lines 16-23: the two early returns, on the captured state.
RefreshGuardReturns(cl) ==
    ~cl.isInitialized \/ cl.isLoading \/ cl.fetchRequested

FreeCalls == {c \in 1..MaxCalls : calls[c].pc = "idle"}
InFlightCalls == {c \in 1..MaxCalls : calls[c].pc # "idle"}

\* refreshData called through closure cl, lines 15-36, up to its return or
\* its first await (sdk.getTransactions).
RefreshData(cl, source) ==
    IF RefreshGuardReturns(cl)
    THEN /\ lastRefresh' = [source |-> source, fetched |-> FALSE, cycle |-> 0]
         /\ UNCHANGED <<hook, calls, blockchainStore, nextCycle, sdkCalls,
                        lastSettled>>
    ELSE /\ FreeCalls # {} /\ nextCycle <= MaxCycles
         /\ LET c == CHOOSE x \in FreeCalls : \A y \in FreeCalls : x <= y
            IN  calls' = [calls EXCEPT ![c] = [pc |-> "getTransactions",
                                               cycle |-> nextCycle]]
         /\ hook' = [isLoading |-> TRUE, fetchRequested |-> TRUE]
         /\ blockchainStore' = setLoading(blockchainStore, TRUE)
         /\ sdkCalls' = sdkCalls \cup {<<nextCycle, "getTransactions">>}
         /\ lastRefresh' = [source |-> source, fetched |-> TRUE,
                            cycle |-> nextCycle]
         /\ nextCycle' = nextCycle + 1
         /\ UNCHANGED lastSettled

\* The (isInitialized, isInitializing) changes the provider can show a
\* consumer in one render: <<from, to>>.
ContextTransitions ==
    { <<<<FALSE, FALSE>>, <<FALSE, TRUE>>>>,   \* initializeSdk starts
      <<<<FALSE, FALSE>>, <<TRUE, FALSE>>>>,   \* constructor throws, mock fallback
      <<<<FALSE, TRUE>>,  <<TRUE, FALSE>>>>,   \* test call resolves, or mock fallback
      <<<<FALSE, TRUE>>,  <<FALSE, FALSE>>>>,  \* test call rejects
      <<<<TRUE, FALSE>>,  <<FALSE, FALSE>>>>,  \* reinitialize()
      <<<<TRUE, FALSE>>,  <<TRUE, TRUE>>>>,    \* a stale initializeSdk starts
      <<<<TRUE, TRUE>>,   <<TRUE, FALSE>>>>,   \* that one settles
      <<<<TRUE, TRUE>>,   <<FALSE, TRUE>>>> }  \* reinitialize()

StatsGetters == {"getLatestBlockHeight", "getLatestEpoch", "getChainId"}

\* Mutant: the ready effect is missing; the first refresh waits for the
\* interval.
SdkContextChangesIntervalOnly(initialized, initializing) ==
    /\ hookMounted /\ UNCHANGED hookMounted
    /\ <<<<provider.isInitialized, provider.isInitializing>>,
         <<initialized, initializing>>>> \in ContextTransitions
    /\ provider' = [provider EXCEPT !.isInitialized = initialized,
                                    !.isInitializing = initializing,
                                    !.sdk = IF initialized THEN "real" ELSE Null]
    /\ UNCHANGED <<hook, calls, blockchainStore, nextCycle, sdkCalls,
                   lastRefresh, lastSettled>>
    /\ refreshInterval' =
         IF initialized = provider.isInitialized THEN refreshInterval
         ELSE IF initialized
              THEN [set |-> TRUE, closure |-> RefreshClosure(initialized)]
              ELSE [set |-> FALSE, closure |-> NoClosure]
    /\ UNCHANGED outsideHook

\* The provider renders its consumers with a new isInitialized / isInitializing.
\* The effect of lines 68-72 (dependencies [isInitialized, isInitializing])
\* runs, then the effect of lines 75-85 (dependency [isInitialized]); both use
\* the refreshData of this render.
SdkContextChanges(initialized, initializing) ==
    /\ hookMounted /\ UNCHANGED hookMounted
    /\ <<<<provider.isInitialized, provider.isInitializing>>,
         <<initialized, initializing>>>> \in ContextTransitions
    /\ provider' = [provider EXCEPT !.isInitialized = initialized,
                                    !.isInitializing = initializing,
                                    !.sdk = IF initialized THEN "real" ELSE Null]
    /\ IF initialized /\ ~initializing
       THEN RefreshData(RefreshClosure(initialized), "sdkReady")
       ELSE UNCHANGED <<hook, calls, blockchainStore, nextCycle, sdkCalls,
                        lastRefresh, lastSettled>>
    /\ refreshInterval' =
         IF initialized = provider.isInitialized THEN refreshInterval
         ELSE IF initialized
              THEN [set |-> TRUE, closure |-> RefreshClosure(initialized)]
              ELSE [set |-> FALSE, closure |-> NoClosure]
    /\ UNCHANGED outsideHook

\* The interval of lines 77-79 ticks: the refreshData captured by the effect.
IntervalTick ==
    /\ hookMounted /\ UNCHANGED hookMounted
    /\ refreshInterval.set
    /\ RefreshData(refreshInterval.closure, "interval")
    /\ UNCHANGED <<provider, outsideHook, refreshInterval>>

\* A consumer calls the refreshData the hook returned in the current render
\* (line 88): the manual refresh.
ManualRefresh ==
    /\ hookMounted /\ UNCHANGED hookMounted
    /\ RefreshData(RefreshClosure(provider.isInitialized), "manual")
    /\ UNCHANGED <<provider, outsideHook, refreshInterval>>

\* Lines 36-46: sdk.getTransactions resolved; the list is written and the
\* three stats getters are called together.
StartStats(c) ==
    /\ blockchainStore' = setTransactions(blockchainStore, calls[c].cycle)
    /\ calls' = [calls EXCEPT ![c].pc = "stats"]
    /\ sdkCalls' = sdkCalls \cup {<<calls[c].cycle, g>> : g \in StatsGetters}
    /\ UNCHANGED <<hook, lastSettled>>

TransactionsResolve(c) ==
    /\ calls[c].pc = "getTransactions"
    /\ StartStats(c)
    /\ UNCHANGED <<provider, outsideHook, refreshInterval, nextCycle,
                   lastRefresh, hookMounted>>

\* Mutant: blockHeight is written before the other two fields arrive.
WriteStatsBlockHeightFirst(store, cycle) ==
    setStats(store, [blockHeight |-> cycle])

\* Lines 49-53: the stats of one cycle, written by one setStats.
WriteStats(store, cycle) ==
    setStats(store, [blockHeight |-> cycle, epoch |-> cycle, chainId |-> cycle])

\* Line 59: the message stored for a thrown value.
RefreshErrorMessage(e) ==
    IF e.isError THEN e.message ELSE "Unknown error occurred"

\* Lines 61-62: setIsLoading(false), setFetchRequested(false); the setters of
\* an unmounted component change nothing.
FinallySets ==
    IF hookMounted THEN [isLoading |-> FALSE, fetchRequested |-> FALSE]
    ELSE hook

\* Mutant: only Error objects are caught, anything else escapes.
RefreshCatchesErrorsOnly(e) == e.isError

\* Line 57: `catch (error)` catches every thrown value.
RefreshCatches(e) == TRUE

\* Mutant: the catch block resets the store before recording the error.
RefreshFailsResetting(c, e, at) ==
    /\ blockchainStore' =
         setError(BlockchainStoreInitial, RefreshErrorMessage(e))
    /\ hook' = FinallySets
    /\ calls' = [calls EXCEPT ![c] = [pc |-> "idle", cycle |-> 0]]
    /\ lastSettled' =
         [cycle |-> calls[c].cycle, outcome |-> "resolved",
          failed |-> TRUE, at |-> at, thrown |-> e]
    /\ UNCHANGED sdkCalls

\* Lines 57-64: an awaited call of invocation c threw e; catch, then finally.
RefreshFails(c, e, at) ==
    /\ blockchainStore' =
         setLoading(IF RefreshCatches(e)
                    THEN setError(blockchainStore, RefreshErrorMessage(e))
                    ELSE blockchainStore,
                    FALSE)
    /\ hook' = FinallySets
    /\ calls' = [calls EXCEPT ![c] = [pc |-> "idle", cycle |-> 0]]
    /\ lastSettled' =
         [cycle |-> calls[c].cycle,
          outcome |-> IF RefreshCatches(e) THEN "resolved" ELSE "rejected",
          failed |-> TRUE, at |-> at, thrown |-> e]
    /\ UNCHANGED sdkCalls

\* Mutant: the stats are fetched and written before the list is awaited.
TransactionsRejectAfterStats(c, e) ==
    /\ calls[c].pc = "getTransactions"
    /\ blockchainStore' =
         setLoading(setError(WriteStats(blockchainStore, calls[c].cycle),
                             RefreshErrorMessage(e)), FALSE)
    /\ hook' = FinallySets
    /\ calls' = [calls EXCEPT ![c] = [pc |-> "idle", cycle |-> 0]]
    /\ lastSettled' =
         [cycle |-> calls[c].cycle, outcome |-> "resolved",
          failed |-> TRUE, at |-> "getTransactions", thrown |-> e]
    /\ sdkCalls' = sdkCalls \cup {<<calls[c].cycle, g>> : g \in StatsGetters}
    /\ UNCHANGED <<provider, outsideHook, refreshInterval, nextCycle,
                   lastRefresh, hookMounted>>

\* sdk.getTransactions of invocation c rejects with e, lines 36 and 57-64.
TransactionsReject(c, e) ==
    /\ calls[c].pc = "getTransactions"
    /\ RefreshFails(c, e, "getTransactions")
    /\ UNCHANGED <<provider, outsideHook, refreshInterval, nextCycle,
                   lastRefresh, hookMounted>>

\* Lines 42-64: Promise.all resolved; setStats, forceUpdate (which notifies
\* the subscribers and changes no field), then finally.
StatsResolve(c) ==
    /\ calls[c].pc = "stats"
    /\ blockchainStore' =
         setLoading(WriteStats(blockchainStore, calls[c].cycle), FALSE)
    /\ hook' = FinallySets
    /\ calls' = [calls EXCEPT ![c] = [pc |-> "idle", cycle |-> 0]]
    /\ lastSettled' =
         [cycle |-> calls[c].cycle, outcome |-> "resolved", failed |-> FALSE,
          at |-> "none", thrown |-> Null]
    /\ UNCHANGED <<provider, outsideHook, refreshInterval, nextCycle,
                   sdkCalls, lastRefresh, hookMounted>>

\* Promise.all rejects with the rejection of one of the three getters.
StatsReject(c, getter, e) ==
    /\ calls[c].pc = "stats"
    /\ RefreshFails(c, e, getter)
    /\ UNCHANGED <<provider, outsideHook, refreshInterval, nextCycle,
                   lastRefresh, hookMounted>>

\* The component that uses the hook unmounts: the cleanup of lines 81-83
\* clears the interval; awaited SDK calls stay in flight.
HookUnmounts ==
    /\ hookMounted
    /\ hookMounted' = FALSE
    /\ refreshInterval' = [set |-> FALSE, closure |-> NoClosure]
    /\ UNCHANGED <<provider, outsideHook, hook, calls, blockchainStore,
                   nextCycle, sdkCalls, lastRefresh, lastSettled>>

BlockchainInit ==
    /\ HookIdle /\ LookupsIdle /\ AccountIdle /\ SearchIdle /\ SlugsIdle
    /\ ResourcesIdle
    /\ provider = ProviderInitialState
    /\ config = [debugMode |-> FALSE, retryOnFailure |-> TRUE]
    /\ mounted = TRUE
    /\ initTimer = "pending"
    /\ retryTimer = NoTimer
    /\ inflight = 0
    /\ lastStep = [op |-> "mounted", init |-> "none"]
    /\ mockFallbackTaken = FALSE
    /\ retryCalls = 0

BlockchainNext ==
    \/ \E i, z \in BOOLEAN : SdkContextChanges(i, z)
    \/ IntervalTick
    \/ ManualRefresh
    \/ \E c \in 1..MaxCalls : TransactionsResolve(c)
    \/ \E c \in 1..MaxCalls, e \in Thrown : TransactionsReject(c, e)
    \/ \E c \in 1..MaxCalls : StatsResolve(c)
    \/ \E c \in 1..MaxCalls, g \in StatsGetters, e \in Thrown :
          StatsReject(c, g, e)
    \/ HookUnmounts

SpecBlockchain == BlockchainInit /\ [][BlockchainNext]_vars

\* Every change of the pair the provider makes is one the hook is given.
ContextTransitionsCover ==
    [][ \/ <<provider.isInitialized, provider.isInitializing>>
             = <<provider'.isInitialized, provider'.isInitializing>>
        \/ <<<<provider.isInitialized, provider.isInitializing>>,
             <<provider'.isInitialized, provider'.isInitializing>>>>
             \in ContextTransitions ]_vars

\* ================================================ addresses and hashes ===
\* utils/addressUtils is not under src/; the normalizers follow spec 4.1.  A
\* string is a sequence of characters.
HexDigits == {"0", "a"}

\* String.prototype.toLowerCase, on the alphabet of the model.
Lower(ch) == IF ch = "A" THEN "a" ELSE IF ch = "F" THEN "f" ELSE ch
toLowerCase(s) == [i \in 1..Len(s) |-> Lower(s[i])]

startsWith0x(s) == Len(s) >= 2 /\ s[1] = "0" /\ s[2] = "x"
Strip0x(s) == IF startsWith0x(s) THEN SubSeq(s, 3, Len(s)) ELSE s
IsHex(s) == \A i \in 1..Len(s) : s[i] \in HexDigits

RECURSIVE StripLeadingZeros(_)
StripLeadingZeros(s) ==
    IF Len(s) > 0 /\ s[1] = "0" THEN StripLeadingZeros(Tail(s)) ELSE s

RECURSIVE PadLeft(_, _)
PadLeft(s, width) ==
    IF Len(s) >= width THEN s ELSE PadLeft(<<"0">> \o s, width)

\* What normalizeTransactionHash returns for a malformed hash.
NullHash == [isNull |-> TRUE, text |-> <<>>]

\* normalizeTransactionHash(input): the 0x-prefixed lower-case hex string of
\* fixed length, or null for malformed input.
normalizeTransactionHash(input) ==
    LET body == toLowerCase(Strip0x(input))
    IN  IF Len(body) = HashWidth /\ IsHex(body)
        THEN [isNull |-> FALSE, text |-> <<"0", "x">> \o body]
        ELSE NullHash

\* normalizeAddress(input): 0x stripped, leading zeros stripped, left-padded
\* to the canonical width.  For input that is not hex, or too long, the
\* contract allows a sentinel (modelled as the empty string) or a throw.
normalizeAddress(input) ==
    LET body == StripLeadingZeros(toLowerCase(Strip0x(input)))
    IN  IF IsHex(body) /\ Len(body) <= AddressWidth
        THEN {[threw |-> FALSE, text |-> PadLeft(body, AddressWidth)]}
        ELSE {[threw |-> FALSE, text |-> <<>>], [threw |-> TRUE, text |-> <<>>]}

\* The strings of the model: canonical hex of a width, and the malformed and
\* the merely differently spelled ones around it.
HexOfWidth(w) ==
    { [i \in 1..w |-> "a"], [i \in 1..w |-> IF i = 1 THEN "0" ELSE "a"] }
Spellings(w) ==
    HexOfWidth(w)
      \cup {<<"0", "x">> \o h : h \in HexOfWidth(w)}
      \cup {<<"A">> \o Tail(h) : h \in HexOfWidth(w)}
      \cup {<<"g">> \o Tail(h) : h \in HexOfWidth(w)}
      \cup {Tail(h) : h \in HexOfWidth(w)}
      \cup {<<>>}

AddressInputs == Spellings(AddressWidth)
HashInputs == Spellings(HashWidth)

\* ======================================================= SDK lookups =====
\* sdk.getAccount and sdk.getTransactionByHash of the real SDK
\* (SdkContext.tsx:112-225) and of the debug-mode mock SDK (lines 266-311),
\* and the row press of the transaction list (part_001:129-147).

\* The ledger states a response of the client can be of.
LedgerStates == {"s1", "s2"}

RejectedResult == [kind |-> "rejected", text |-> <<>>, state |-> <<>>]

\* Lines 178 and 186: the accountAddress parameter of the real client; the
\* mock client is given the normalized address as it is (lines 298-299).
AccountAddress(normalizedAddress) ==
    IF provider.sdk = "mock" \/ startsWith0x(normalizedAddress)
    THEN normalizedAddress
    ELSE <<"0", "x">> \o normalizedAddress

RequestOf(c) == {r \in pending : r.caller = c}

Settled(c, method, arg, result) ==
    [callers EXCEPT ![c] =
        [method |-> method, arg |-> arg, pc |-> "done", result |-> result]]

Awaiting(c, method, arg, pc, text) ==
    [callers EXCEPT ![c] =
        [method |-> method, arg |-> arg, pc |-> pc,
         result |-> [kind |-> "none", text |-> text, state |-> <<>>]]]

\* sdk.getAccount(address) called by c, lines 164-182 (mock: 289-298), up to
\* its return or its first await.  Both SDKs call normalizeAddress outside
\* their try block.
sdkGetAccount(c, address) ==
    /\ IF address = <<>>
       THEN /\ callers' = Settled(c, "getAccount", address, NullResult)
            /\ UNCHANGED pending
       ELSE \E n \in normalizeAddress(address) :
            IF n.threw
            THEN /\ callers' = Settled(c, "getAccount", address, RejectedResult)
                 /\ UNCHANGED pending
            ELSE /\ callers' = Awaiting(c, "getAccount", address, "account",
                                        n.text)
                 /\ pending' = pending \cup
                       {[caller |-> c,
                         method |-> IF provider.sdk = "mock" THEN "getAccount"
                                    ELSE "account",
                         param |-> AccountAddress(n.text)]}

\* A caller that is not awaiting a lookup calls sdk.getAccount(address).
getAccount(c, address) ==
    /\ provider.sdk # Null
    /\ callers[c].pc = "idle"
    /\ sdkGetAccount(c, address)
    /\ UNCHANGED <<location, lastPress, outsideLookups>>

\* client.account resolves, lines 182-190 (mock: 298-299): the resources are
\* asked for with the same address.
AccountResolves(c, ledger) ==
    /\ callers[c].pc = "account"
    /\ callers' = [callers EXCEPT
          ![c].pc = "resources",
          ![c].result.state = IF provider.sdk = "mock" THEN <<>>
                              ELSE <<ledger>>]
    /\ pending' = (pending \ RequestOf(c)) \cup
          {[caller |-> c, method |-> "getAccountResources",
            param |-> AccountAddress(callers[c].result.text)]}
    /\ UNCHANGED <<location, lastPress, outsideLookups>>

\* client.getAccountResources resolves, lines 190-220 (mock: 299-306): the
\* account object (the mock's has a fixed balance and sequence number).
ResourcesResolve(c, ledger) ==
    /\ callers[c].pc = "resources"
    /\ callers' = [callers EXCEPT ![c].pc = "done",
                                  ![c].result.kind = "account",
                                  ![c].result.state = Append(@, ledger)]
    /\ pending' = pending \ RequestOf(c)
    /\ UNCHANGED <<location, lastPress, outsideLookups>>

\* Line 117: `if (!normalizedHash)` (null and the empty string are falsy).
HashGuardReturns(normalizedHash) ==
    normalizedHash.isNull \/ normalizedHash.text = <<>>

\* newSdk.getTransactionByHash(hash), lines 112-127, up to its return or its
\* await of client.getTransactionByHash.
newSdkGetTransactionByHash(c, hash) ==
    LET normalizedHash == normalizeTransactionHash(hash)
    IN  IF HashGuardReturns(normalizedHash)
        THEN /\ callers' = Settled(c, "getTransactionByHash", hash, NullResult)
             /\ UNCHANGED pending
        ELSE /\ callers' = Awaiting(c, "getTransactionByHash", hash,
                                    "transaction", normalizedHash.text)
             /\ pending' = pending \cup
                   {[caller |-> c, method |-> "getTransactionByHash",
                     param |-> normalizedHash.text]}

\* mockSdk.getTransactionByHash(hash), lines 266-268: `if (!hash) return null`,
\* then the mock client is asked for the hash as it was given.
mockSdkGetTransactionByHash(c, hash) ==
    IF hash = <<>>
    THEN /\ callers' = Settled(c, "getTransactionByHash", hash, NullResult)
         /\ UNCHANGED pending
    ELSE /\ callers' = Awaiting(c, "getTransactionByHash", hash,
                                "transaction", hash)
         /\ pending' = pending \cup
               {[caller |-> c, method |-> "getTransactionByHash",
                 param |-> hash]}

\* sdk.getTransactionByHash(hash) called by c, on the SDK the provider holds.
sdkGetTransactionByHash(c, hash) ==
    IF provider.sdk = "mock" THEN mockSdkGetTransactionByHash(c, hash)
                             ELSE newSdkGetTransactionByHash(c, hash)

\* A caller that is not awaiting a lookup calls sdk.getTransactionByHash(hash).
getTransactionByHash(c, hash) ==
    /\ provider.sdk # Null
    /\ callers[c].pc = "idle"
    /\ sdkGetTransactionByHash(c, hash)
    /\ UNCHANGED <<location, lastPress, outsideLookups>>

\* client.getTransactionByHash resolves, lines 127-158 (mock: 268-287): with a
\* transaction, or with nothing (`if (!tx) return null`).
TransactionResolves(c, found, ledger) ==
    /\ callers[c].pc = "transaction"
    /\ callers' = [callers EXCEPT ![c].pc = "done",
                                  ![c].result =
                                      IF found
                                      THEN [kind |-> "transaction",
                                            text |-> callers[c].result.text,
                                            state |-> <<ledger>>]
                                      ELSE NullResult]
    /\ pending' = pending \ RequestOf(c)
    /\ UNCHANGED <<location, lastPress, outsideLookups>>

\* An awaited client call of a lookup rejects: the catch of lines 159-162,
\* 221-224 or 307-310 returns null; the mock SDK's getTransactionByHash has no
\* try block and rejects.
ClientRejects(c) ==
    /\ callers[c].pc \in {"account", "resources", "transaction"}
    /\ callers' = [callers EXCEPT
          ![c].pc = "done",
          ![c].result = IF provider.sdk = "mock"
                           /\ callers[c].pc = "transaction"
                        THEN RejectedResult ELSE NullResult]
    /\ pending' = pending \ RequestOf(c)
    /\ UNCHANGED <<location, lastPress, outsideLookups>>

\* The caller takes the value its await settled with (part_000:140-162) and
\* is free for another lookup.
LookupReturns(c) ==
    /\ callers[c].pc = "done"
    /\ callers' = [callers EXCEPT ![c] = IdleCaller]
    /\ UNCHANGED <<pending, location, lastPress, outsideLookups>>

\* part_001:134: `if (!normalizedHash) return`.
PressGuardReturns(normalizedHash) ==
    normalizedHash.isNull \/ normalizedHash.text = <<>>

\* A press on a transaction row, part_001:129-147 (rows call it with
\* item.hash, lines 207 and 245).
handleTransactionPress(hash) ==
    /\ LET normalizedHash == normalizeTransactionHash(hash)
       IN  IF PressGuardReturns(normalizedHash)
           THEN /\ lastPress' = [hash |-> hash, navigated |-> FALSE,
                                 pressed |-> TRUE]
                /\ UNCHANGED location
           ELSE /\ lastPress' = [hash |-> hash, navigated |-> TRUE,
                                 pressed |-> TRUE]
                /\ location' = [path |-> "/tx", hash |-> normalizedHash.text]
    /\ UNCHANGED <<callers, pending, outsideLookups>>

\* The provider after an initialization: the real SDK is installed, or (debug
\* mode, the initialization failed) the mock SDK.
InstalledProviders ==
    { InitSuccessSets([InitStartSets(ProviderInitialState)
                          EXCEPT !.sdkClient = "real"]) }
      \cup { MockFallbackSets(InitStartSets(ProviderInitialState), err) :
                err \in Thrown }

LookupsInit ==
    /\ HookIdle /\ LookupsIdle /\ AccountIdle /\ SearchIdle /\ SlugsIdle
    /\ ResourcesIdle
    /\ provider \in InstalledProviders
    /\ config = [debugMode |-> provider.isUsingMockData,
                 retryOnFailure |-> TRUE]
    /\ mounted = TRUE
    /\ initTimer = "fired"
    /\ retryTimer = NoTimer
    /\ inflight = 0
    /\ lastStep = [op |-> "getLedgerInfo",
                   init |-> IF provider.isUsingMockData THEN "failed"
                            ELSE "succeeded"]
    /\ mockFallbackTaken = provider.isUsingMockData
    /\ retryCalls = 0

LookupsNext ==
    \/ \E c \in Callers, address \in AddressInputs : getAccount(c, address)
    \/ \E c \in Callers, ledger \in LedgerStates : AccountResolves(c, ledger)
    \/ \E c \in Callers, ledger \in LedgerStates : ResourcesResolve(c, ledger)
    \/ \E c \in Callers : ClientRejects(c)
    \/ \E c \in Callers, hash \in HashInputs : getTransactionByHash(c, hash)
    \/ \E c \in Callers, found \in BOOLEAN, ledger \in LedgerStates :
          TransactionResolves(c, found, ledger)
    \/ \E c \in Callers : LookupReturns(c)
    \/ \E hash \in HashInputs : handleTransactionPress(hash)

SpecLookups == LookupsInit /\ [][LookupsNext]_vars

\* ========================================================= SearchBar =====
\* part_000:100-208.  utils/addressUtils is not under src/:
\* isValidAddressFormat follows spec 4.1.  Two runs of handleSearch can overlap
\* (onSubmitEditing is not disabled while a search runs); each run makes its
\* SDK calls as one of the callers.

Space == " "

\* String.prototype.trim, on the alphabet of the model.
RECURSIVE trimStart(_)
trimStart(s) == IF Len(s) > 0 /\ s[1] = Space THEN trimStart(Tail(s)) ELSE s
RECURSIVE trimEnd(_)
trimEnd(s) ==
    IF Len(s) > 0 /\ s[Len(s)] = Space
    THEN trimEnd(SubSeq(s, 1, Len(s) - 1)) ELSE s
trim(s) == trimEnd(trimStart(s))

\* isValidAddressFormat(input): hex characters only, with or without 0x, of a
\* length an address can have; every output of normalizeAddress is accepted.
isValidAddressFormat(input) ==
    LET body == toLowerCase(Strip0x(input))
    IN  Len(body) \in 1..AddressWidth /\ IsHex(body)

NotFoundMessage == "No account or transaction found with this identifier"
SearchErrorMessage == "Error performing search"

\* What the user can have typed into the input: nothing, blanks, an address
\* with and without blanks around it, and strings that are no address.
SearchInputs ==
    LET h == [i \in 1..AddressWidth |-> "a"]
    IN  {<<>>, <<Space>>, h, <<Space>> \o h \o <<Space>>, Tail(h),
         <<"g">> \o Tail(h)}

\* Line 182: onChangeText={setSearchQuery}.
onChangeText(text) ==
    /\ searchBar' = [searchBar EXCEPT !.searchQuery = text]
    /\ UNCHANGED <<searches, lastSearch, lookupVars, outsideSearch>>

\* Line 125: `if (!searchQuery.trim()) return`.
SearchGuardReturns(searchQuery) == trim(searchQuery) = <<>>

\* Mutant: the account lookup is tried for every query.
SearchTriesAccountAlways(query) == TRUE

\* Line 136: the account lookup is tried for a query of address format only.
SearchTriesAccount(query) == isValidAddressFormat(query)

\* Line 142: `if (accountData)`.
AccountFound(result) == result.kind = "account"

\* Mutant: a null transaction counts as found.
TransactionFoundOrNull(result) == result.kind \in {"transaction", "null"}

\* Line 156: `if (txDetails)`.
TransactionFound(result) == result.kind = "transaction"

SearchAwaits(c, pc, query, method) ==
    [searches EXCEPT ![c] = [pc |-> pc, query |-> query,
                             calls |-> Append(searches[c].calls, method)]]

\* handleSearch, lines 124-140 and 154, up to its return or its first await.
handleSearch(c) ==
    LET query == trim(searchBar.searchQuery)
    IN  /\ provider.sdk # Null
        /\ searches[c].pc = "idle"
        /\ callers[c].pc = "idle"
        /\ IF SearchGuardReturns(searchBar.searchQuery)
           THEN /\ lastSearch' = [outcome |-> "blank", calls |-> <<>>]
                /\ UNCHANGED <<searches, searchBar, callers, pending>>
           ELSE /\ searchBar' = [searchBar EXCEPT !.isSearching = TRUE,
                                                  !.error = Null]
                /\ IF SearchTriesAccount(query)
                   THEN /\ sdkGetAccount(c, query)
                        /\ searches' = SearchAwaits(c, "account", query,
                                                    "getAccount")
                   ELSE /\ sdkGetTransactionByHash(c, query)
                        /\ searches' = SearchAwaits(c, "transaction", query,
                                                    "getTransactionByHash")
                /\ UNCHANGED lastSearch
        /\ UNCHANGED <<location, lastPress, outsideSearch>>

\* The TextInput of lines 177-187 calls handleSearch on submit; it has no
\* disabled or editable attribute.
onSubmitEditing(c) == handleSearch(c)

\* The TouchableOpacity of lines 189-194: disabled while isSearching.
onPress(c) ==
    /\ ~searchBar.isSearching
    /\ handleSearch(c)

\* A run of handleSearch ends: what it leaves in the component's state and
\* where the router is (the finally of line 170 included).
SearchEnds(c, outcome, bar, loc) ==
    /\ searches' = [searches EXCEPT ![c] = NoSearch]
    /\ callers' = [callers EXCEPT ![c] = IdleCaller]
    /\ searchBar' = [bar EXCEPT !.isSearching = FALSE]
    /\ location' = loc
    /\ lastSearch' = [outcome |-> outcome, calls |-> searches[c].calls]
    /\ UNCHANGED pending

\* handleSearch after an await has settled, lines 140-171.
SearchResumes(c) ==
    LET result == callers[c].result
        query == searches[c].query
        cleared == [searchBar EXCEPT !.searchQuery = <<>>]
    IN  /\ searches[c].pc # "idle"
        /\ callers[c].pc = "done"
        /\ IF result.kind = "rejected"
           THEN SearchEnds(c, "error",
                           [searchBar EXCEPT !.error = SearchErrorMessage],
                           location)
           ELSE IF searches[c].pc = "account"
           THEN IF AccountFound(result)
                THEN SearchEnds(c, "account", cleared,
                                [path |-> "/account", hash |-> query])
                ELSE /\ sdkGetTransactionByHash(c, query)
                     /\ searches' = SearchAwaits(c, "transaction", query,
                                                 "getTransactionByHash")
                     /\ UNCHANGED <<searchBar, location, lastSearch>>
           ELSE IF TransactionFound(result)
                THEN SearchEnds(c, "transaction", cleared,
                                [path |-> "/tx", hash |-> query])
                ELSE SearchEnds(c, "notFound",
                                [searchBar EXCEPT !.error = NotFoundMessage],
                                location)
        /\ UNCHANGED <<lastPress, outsideSearch>>

\* The search reads of a response only whether it is null: one ledger state
\* stands for all.
SearchLedgerStates == {"s1"}

SearchInit ==
    /\ LookupsInit
    /\ provider.error \in {Null, "Using mock data in debug mode"}

SearchNext ==
    \/ \E text \in SearchInputs : onChangeText(text)
    \/ \E c \in Callers : onPress(c)
    \/ \E c \in Callers : onSubmitEditing(c)
    \/ \E c \in Callers, ledger \in SearchLedgerStates :
          AccountResolves(c, ledger)
    \/ \E c \in Callers, ledger \in SearchLedgerStates :
          ResourcesResolve(c, ledger)
    \/ \E c \in Callers : ClientRejects(c)
    \/ \E c \in Callers, found \in BOOLEAN, ledger \in SearchLedgerStates :
          TransactionResolves(c, found, ledger)
    \/ \E c \in Callers : SearchResumes(c)

SpecSearch == SearchInit /\ [][SearchNext]_vars

\* =============================================== AccountDetailsScreen ====
\* src/src/screens/AccountDetails.tsx, lines 348-583 and 1121-1128.  The
\* useAccount hook is not under src/: refreshAccount() is a call that is
\* outstanding until its promise settles.

AppStates == {"active", "inactive", "background"}

\* What the functions of a render capture.
ScreenClosure ==
    [isFocused |-> screen.isFocused, address |-> screen.address,
     isAutoRefreshing |-> screen.isAutoRefreshing]

\* The polling state startPolling and stopPolling work on.
Polling ==
    [ref |-> refreshTimerRef, intervals |-> intervals,
     isAutoRefreshing |-> screen.isAutoRefreshing, timeouts |-> startTimeouts]

FreeIntervalIds(pr) == (1..MaxIntervals) \ {i.id : i \in pr.intervals}

\* Mutant: stopPolling forgets the timer without clearing it.
stopPollingWithoutClear(pr) ==
    IF pr.ref # 0
    THEN [pr EXCEPT !.ref = 0, !.isAutoRefreshing = FALSE]
    ELSE pr

\* stopPolling, lines 575-583.
stopPolling(pr) ==
    IF pr.ref # 0
    THEN [pr EXCEPT !.intervals = {i \in pr.intervals : i.id # pr.ref},
                    !.ref = 0,
                    !.isAutoRefreshing = FALSE]
    ELSE pr

\* startPolling of the render with closure cl, lines 552-572: the 200 ms
\* timeout and the 10 s interval capture isFocused and isAutoRefreshing of
\* that render.
startPolling(pr, cl) ==
    IF pr.ref = 0 /\ cl.isFocused /\ cl.address # NoAddress
    THEN LET id == CHOOSE x \in FreeIntervalIds(pr) :
                      \A y \in FreeIntervalIds(pr) : x <= y
         IN  [ref |-> id,
              intervals |-> pr.intervals \cup
                  {[id |-> id, isAutoRefreshing |-> cl.isAutoRefreshing,
                    isFocused |-> cl.isFocused]},
              isAutoRefreshing |-> FALSE,
              timeouts |-> Append(pr.timeouts, [isFocused |-> cl.isFocused])]
    ELSE pr

\* The effect of lines 538-549, dependencies [isFocused, addressFromParams]:
\* the cleanup of the previous run, then the body of the render with closure cl.
PollingEffect(pr, cl) ==
    LET cleaned == stopPolling(pr)
    IN  IF cl.isFocused /\ cl.address # NoAddress
        THEN startPolling(cleaned, cl)
        ELSE stopPolling(cleaned)

\* The polling state is written back; isAutoRefreshing is a state cell.
PollingBecomes(pr, focused, address) ==
    /\ refreshTimerRef' = pr.ref
    /\ intervals' = pr.intervals
    /\ startTimeouts' = pr.timeouts
    /\ screen' = [screen EXCEPT !.isFocused = focused, !.address = address,
                                !.isAutoRefreshing = pr.isAutoRefreshing]

ScreenStep(op, refreshCalls) ==
    lastScreenStep' = [op |-> op, refreshCalls |-> refreshCalls]

\* The screen's focus changes (useIsFocused): a render, then the effect.
FocusChanges(focused) ==
    /\ screen.mounted /\ focused # screen.isFocused
    /\ LET cl == [ScreenClosure EXCEPT !.isFocused = focused]
           pr == PollingEffect(Polling, cl)
       IN  /\ FreeIntervalIds(stopPolling(Polling)) # {}
           /\ Len(pr.timeouts) <= MaxTimeouts
           /\ PollingBecomes(pr, focused, screen.address)
    /\ ScreenStep("focus", 0)
    /\ UNCHANGED <<isMounted, resetTimeouts, appState, outstanding,
                   outsideAccount>>

\* The route's address changes: a render, then the effect.
AddressChanges(address) ==
    /\ screen.mounted /\ address # screen.address
    /\ LET cl == [ScreenClosure EXCEPT !.address = address]
           pr == PollingEffect(Polling, cl)
       IN  /\ FreeIntervalIds(stopPolling(Polling)) # {}
           /\ Len(pr.timeouts) <= MaxTimeouts
           /\ PollingBecomes(pr, screen.isFocused, address)
    /\ ScreenStep("address", 0)
    /\ UNCHANGED <<isMounted, resetTimeouts, appState, outstanding,
                   outsideAccount>>

\* handleRefresh, lines 392-396, up to its await: setIsAutoRefreshing(true),
\* then refreshAccount().  There is no guard.
handleRefresh(source) ==
    /\ Len(outstanding) < MaxOutstanding
    /\ outstanding' = Append(outstanding, "handleRefresh")
    /\ screen' = IF screen.mounted
                 THEN [screen EXCEPT !.isAutoRefreshing = TRUE]
                 ELSE screen

\* The 200 ms timeout of startPolling fires, lines 559-563: isMounted is read
\* from the ref, isFocused from the render that called startPolling.
StartTimeoutFires ==
    /\ startTimeouts # <<>>
    /\ startTimeouts' = Tail(startTimeouts)
    /\ IF isMounted /\ Head(startTimeouts).isFocused
       THEN handleRefresh("startup") /\ ScreenStep("startTimeout", 1)
       ELSE UNCHANGED <<outstanding, screen>> /\ ScreenStep("startTimeout", 0)
    /\ UNCHANGED <<isMounted, refreshTimerRef, intervals, resetTimeouts,
                   appState, outsideAccount>>

\* Line 567: the guard of the interval callback; isAutoRefreshing and
\* isFocused are those of the render that called startPolling.
IntervalGuard(i) == ~i.isAutoRefreshing /\ i.isFocused /\ isMounted

\* A live 10 s interval ticks, lines 565-570.
AccountIntervalTick(i) ==
    /\ i \in intervals
    /\ IF IntervalGuard(i)
       THEN handleRefresh("interval") /\ ScreenStep("interval", 1)
       ELSE UNCHANGED <<outstanding, screen>> /\ ScreenStep("interval", 0)
    /\ UNCHANGED <<isMounted, refreshTimerRef, intervals, startTimeouts,
                   resetTimeouts, appState, outsideAccount>>

\* The Retry button, lines 774-776.
RetryPressed ==
    /\ screen.mounted
    /\ handleRefresh("retry")
    /\ ScreenStep("retry", 1)
    /\ UNCHANGED <<isMounted, refreshTimerRef, intervals, startTimeouts,
                   resetTimeouts, appState, outsideAccount>>

\* onRefresh of the account's transaction list, lines 1121-1128.
OnRefresh ==
    /\ screen.mounted
    /\ Len(outstanding) < MaxOutstanding
    /\ outstanding' = Append(outstanding, "onRefresh")
    /\ screen' = [screen EXCEPT !.isAutoRefreshing = TRUE]
    /\ ScreenStep("onRefresh", 1)
    /\ UNCHANGED <<isMounted, refreshTimerRef, intervals, startTimeouts,
                   resetTimeouts, appState, outsideAccount>>

\* Line 519: the app has come to the foreground.
ComesToForeground(nextAppState) ==
    appState \in {"inactive", "background"} /\ nextAppState = "active"

\* handleAppStateChange, lines 518-535.  The subscription of lines 510-515 is
\* made once (dependencies []), so the handler is the one of the first
\* render: isFocused and addressFromParams are those of that render.
handleAppStateChange(nextAppState) ==
    /\ screen.mounted /\ nextAppState # appState
    /\ IF /\ ComesToForeground(nextAppState)
          /\ screen.handler.isFocused /\ screen.handler.address # NoAddress
       THEN /\ Len(outstanding) < MaxOutstanding
            /\ outstanding' = Append(outstanding, "foreground")
            /\ screen' = [screen EXCEPT !.isAutoRefreshing = TRUE]
            /\ ScreenStep("appState", 1)
       ELSE UNCHANGED <<outstanding, screen>> /\ ScreenStep("appState", 0)
    /\ appState' = nextAppState
    /\ UNCHANGED <<isMounted, refreshTimerRef, intervals, startTimeouts,
                   resetTimeouts, outsideAccount>>

RemoveAt(seq, k) == SubSeq(seq, 1, k - 1) \o SubSeq(seq, k + 1, Len(seq))

\* The k-th outstanding refreshAccount() settles (resolved or rejected): the
\* finally of lines 399-403 or 527-531 schedules the reset when isMounted is
\* set, that of lines 1126-1128 always.
RefreshSettles(k) ==
    /\ k \in 1..Len(outstanding)
    /\ outstanding' = RemoveAt(outstanding, k)
    /\ IF isMounted \/ outstanding[k] = "onRefresh"
       THEN /\ Len(resetTimeouts) < MaxTimeouts
            /\ resetTimeouts' = Append(resetTimeouts, "reset")
       ELSE UNCHANGED resetTimeouts
    /\ ScreenStep("settle", 0)
    /\ UNCHANGED <<screen, isMounted, refreshTimerRef, intervals,
                   startTimeouts, appState, outsideAccount>>

\* A 500 ms timeout fires: setIsAutoRefreshing(false).
ResetTimeoutFires ==
    /\ resetTimeouts # <<>>
    /\ resetTimeouts' = Tail(resetTimeouts)
    /\ screen' = IF screen.mounted
                 THEN [screen EXCEPT !.isAutoRefreshing = FALSE]
                 ELSE screen
    /\ ScreenStep("resetTimeout", 0)
    /\ UNCHANGED <<isMounted, refreshTimerRef, intervals, startTimeouts,
                   appState, outstanding, outsideAccount>>

\* The screen unmounts: the cleanups of lines 504-506, 512-514 and 546-548.
ScreenUnmounts ==
    /\ screen.mounted
    /\ isMounted' = FALSE
    /\ LET pr == stopPolling(Polling)
       IN  /\ refreshTimerRef' = pr.ref
           /\ intervals' = pr.intervals
           /\ screen' = [screen EXCEPT !.mounted = FALSE]
    /\ ScreenStep("unmount", 0)
    /\ UNCHANGED <<startTimeouts, resetTimeouts, appState, outstanding,
                   outsideAccount>>

\* The screen after its first render and its mount effects, for every focus
\* and address the first render can be given.
AccountInit ==
    /\ HookIdle /\ LookupsIdle /\ SearchIdle /\ SlugsIdle
    /\ ResourcesIdle
    /\ provider = InitSuccessSets([InitStartSets(ProviderInitialState)
                                     EXCEPT !.sdkClient = "real"])
    /\ config = [debugMode |-> FALSE, retryOnFailure |-> TRUE]
    /\ mounted = TRUE
    /\ initTimer = "fired"
    /\ retryTimer = NoTimer
    /\ inflight = 0
    /\ lastStep = [op |-> "getLedgerInfo", init |-> "succeeded"]
    /\ mockFallbackTaken = FALSE
    /\ retryCalls = 0
    /\ \E focused \in BOOLEAN, address \in Addresses \cup {NoAddress} :
         LET cl == [isFocused |-> focused, address |-> address,
                    isAutoRefreshing |-> FALSE]
             pr == PollingEffect([ref |-> 0, intervals |-> {},
                                  isAutoRefreshing |-> FALSE,
                                  timeouts |-> <<>>], cl)
         IN  /\ screen = [mounted |-> TRUE, isFocused |-> focused,
                          address |-> address,
                          isAutoRefreshing |-> pr.isAutoRefreshing,
                          handler |-> [isFocused |-> focused,
                                       address |-> address]]
             /\ refreshTimerRef = pr.ref
             /\ intervals = pr.intervals
             /\ startTimeouts = pr.timeouts
    /\ isMounted = TRUE
    /\ resetTimeouts = <<>>
    /\ appState = "active"
    /\ outstanding = <<>>
    /\ lastScreenStep = NoScreenStep

AccountNext ==
    \/ \E focused \in BOOLEAN : FocusChanges(focused)
    \/ \E address \in Addresses \cup {NoAddress} : AddressChanges(address)
    \/ StartTimeoutFires
    \/ \E i \in intervals : AccountIntervalTick(i)
    \/ RetryPressed
    \/ OnRefresh
    \/ \E nextAppState \in AppStates : handleAppStateChange(nextAppState)
    \/ \E k \in 1..MaxOutstanding : RefreshSettles(k)
    \/ ResetTimeoutFires
    \/ ScreenUnmounts

SpecAccount == AccountInit /\ [][AccountNext]_vars

\* ================================================ resource slug mapper ====
\* resourceTypeToSlug and slugToResourceType, AccountDetails.tsx:87-174.

\* [A-Z], on the alphabet of the model.
IsUpperCase(ch) == ch \in {"A", "F"}

Dash == <<"-">>
Colons == <<":", ":">>

\* String.prototype.includes.
includes(s, sub) ==
    \E i \in 0..(Len(s) - Len(sub)) : SubSeq(s, i + 1, i + Len(sub)) = sub

\* String.prototype.split with a non-empty separator.
RECURSIVE splitFrom(_, _, _)
splitFrom(s, sep, part) ==
    IF s = <<>> THEN <<part>>
    ELSE IF Len(s) >= Len(sep) /\ SubSeq(s, 1, Len(sep)) = sep
    THEN <<part>> \o splitFrom(SubSeq(s, Len(sep) + 1, Len(s)), sep, <<>>)
    ELSE splitFrom(Tail(s), sep, Append(part, Head(s)))
split(s, sep) == splitFrom(s, sep, <<>>)

\* Line 100: .replace(/([A-Z])/g, '-$1').
RECURSIVE DashBeforeCapitals(_)
DashBeforeCapitals(s) ==
    IF s = <<>> THEN <<>>
    ELSE (IF IsUpperCase(Head(s)) THEN <<"-", Head(s)>> ELSE <<Head(s)>>)
            \o DashBeforeCapitals(Tail(s))

\* Mutant: the leading hyphen is left in place.
typeNameKebabLeadingDash(typeName) ==
    toLowerCase(DashBeforeCapitals(typeName))

\* Lines 99-102: the kebab-case of a type name.
typeNameKebab(typeName) ==
    LET lowered == toLowerCase(DashBeforeCapitals(typeName))
    IN  IF Len(lowered) > 0 /\ lowered[1] = "-" THEN Tail(lowered) ELSE lowered

\* resourceTypeToSlug(type), lines 87-104.
resourceTypeToSlug(type) ==
    LET parts == split(type, Colons)
    IN  IF type = <<>> \/ Len(parts) < 2 THEN <<>>
        ELSE toLowerCase(parts[Len(parts) - 1]) \o Dash
                \o typeNameKebab(parts[Len(parts)])

\* Array.prototype.find, as the index of the first element that passes the
\* test (0: undefined); test[i] is the test of the i-th element.
find(list, test) ==
    LET hits == {i \in 1..Len(list) : test[i]}
    IN  IF hits = {} THEN 0 ELSE CHOOSE i \in hits : \A j \in hits : i <= j

\* `if (matchingType)`: an element was found and is not the empty string.
Truthy(list, i) == i # 0 /\ list[i] # <<>>

TypeAt(list, i) ==
    IF i = 0 THEN NoType ELSE [isNull |-> FALSE, text |-> list[i]]

\* Line 114: Array.from(new Set(segments)), the first occurrences in order.
RECURSIVE uniqueSegments(_)
uniqueSegments(segments) ==
    IF segments = <<>> THEN <<>>
    ELSE LET before == uniqueSegments(SubSeq(segments, 1, Len(segments) - 1))
             last == segments[Len(segments)]
         IN  IF \E i \in 1..Len(before) : before[i] = last
             THEN before ELSE Append(before, last)

\* Lines 119-122: a type that contains the segment.
ContainsSegment(type, segment) ==
    includes(toLowerCase(type), toLowerCase(segment))

\* Mutant: the repeated-segment block is missing.
RepeatedSegmentSkipped(list, s) == 0

\* Lines 110-127: the slug has a repeated segment and a type contains one of
\* its segments: the index of the type returned, or 0.
RepeatedSegmentMatch(list, s) ==
    LET segments == split(s, Dash)
        unique == uniqueSegments(segments)
        found == [k \in 1..Len(unique) |->
                    find(list, [i \in 1..Len(list) |->
                                  ContainsSegment(list[i], unique[k])])]
        hits == {k \in 1..Len(unique) : Truthy(list, found[k])}
    IN  IF includes(s, Dash) /\ Len(unique) < Len(segments) /\ hits # {}
        THEN found[CHOOSE k \in hits : \A j \in hits : k <= j]
        ELSE 0

\* Lines 131-136: the type's own slug is the slug.
ExactMatch(type, s) == resourceTypeToSlug(type) = s

MyPledges == <<"m", "y", "-", "p", "l", "e", "d", "g", "e", "s">>
FeeMaker == <<"f", "e", "e", "-", "m", "a", "k", "e", "r">>

\* Lines 142-145 and 150-153: the types the legacy slugs stand for.
LegacyMatch(type, s) ==
    LET lowered == toLowerCase(type)
    IN  \/ /\ s = MyPledges
           /\ \/ includes(lowered, <<"p", "l", "e", "d", "g", "e">>)
              \/ includes(lowered, <<"v", "o", "u", "c", "h">>)
        \/ /\ s = FeeMaker
           /\ includes(lowered, <<"f", "e", "e">>)
           /\ includes(lowered, <<"m", "a", "k", "e", "r">>)

\* Lines 157-160: every hyphen-separated keyword of the slug is in the type.
KeywordMatch(type, s) ==
    LET keywords == split(s, Dash)
    IN  \A k \in 1..Len(keywords) : includes(toLowerCase(type), keywords[k])

\* Lines 168-169: one contains the other.
PartialMatch(type, s) ==
    includes(toLowerCase(type), s) \/ includes(s, toLowerCase(type))

\* slugToResourceType(types, slug), lines 107-174.
slugToResourceType(list, s) ==
    IF s = <<>> \/ list = <<>> THEN NoType
    ELSE LET repeated == RepeatedSegmentMatch(list, s)
             exact ==
                 find(list, [i \in 1..Len(list) |-> ExactMatch(list[i], s)])
             legacy ==
                 find(list, [i \in 1..Len(list) |-> LegacyMatch(list[i], s)])
             keyword ==
                 find(list, [i \in 1..Len(list) |-> KeywordMatch(list[i], s)])
             partial ==
                 find(list, [i \in 1..Len(list) |-> PartialMatch(list[i], s)])
         IN  IF repeated # 0 THEN TypeAt(list, repeated)
             ELSE IF exact # 0 THEN TypeAt(list, exact)
             ELSE IF s \in {MyPledges, FeeMaker}
             THEN (IF Truthy(list, legacy) THEN TypeAt(list, legacy) ELSE NoType)
             ELSE IF Truthy(list, keyword) THEN TypeAt(list, keyword)
             ELSE TypeAt(list, partial)

\* A resource type: address, module and type name.
TypeOf(address, module, typeName) ==
    address \o Colons \o module \o Colons \o typeName

\* The resource types of the model: one whose slug repeats a segment, two of
\* one slug, the types the legacy slugs stand for, one with capitals in its
\* module and inside its name, one without "::".
KnownTypes ==
    { TypeOf(<<"1">>, <<"a">>, <<"A">>),
      TypeOf(<<"1">>, <<"a">>, <<"A", "b">>),
      TypeOf(<<"2">>, <<"a">>, <<"A", "b">>),
      TypeOf(<<"1">>, <<"b">>, <<"A">>),
      TypeOf(<<"1">>, <<"p", "l", "e", "d", "g", "e">>, <<"A">>),
      TypeOf(<<"1">>, <<"m", "a", "k", "e", "r">>, <<"F", "e", "e">>),
      TypeOf(<<"1">>, <<"F", "b">>, <<"A", "F">>),
      <<"a", "b">> }

\* The slugs of links that were not derived from a candidate.
LinkedSlugs ==
    { MyPledges, FeeMaker, <<"a", "b", "-", "a">>,
      TypeOf(<<"1">>, <<"b">>, <<"a">>) \o <<"-", "x">>,
      <<"a", "-", "x", "-", "a">>, <<"x">>, <<>> }

TypeLists ==
    UNION { [1..n -> KnownTypes] : n \in 1..MaxTypes }

\* The slug of the i-th candidate is made.
SlugDerived(i) ==
    /\ ~slug.given
    /\ i \in 1..Len(types)
    /\ slug' = [given |-> TRUE, text |-> resourceTypeToSlug(types[i]),
                from |-> i]
    /\ UNCHANGED <<types, matchingType, categorized, outsideSlugs>>

\* A link with a slug of its own is followed.
SlugLinked(s) ==
    /\ ~slug.given
    /\ slug' = [given |-> TRUE, text |-> s, from |-> 0]
    /\ UNCHANGED <<types, matchingType, categorized, outsideSlugs>>

\* Line 478: slugToResourceType(resourceTypes, resourceParam).
SlugResolved ==
    /\ slug.given
    /\ ~matchingType.resolved
    /\ LET found == slugToResourceType(types, slug.text)
       IN  matchingType' = [resolved |-> TRUE, isNull |-> found.isNull,
                            text |-> found.text]
    /\ UNCHANGED <<types, slug, categorized, outsideSlugs>>

SlugsInit ==
    /\ HookIdle /\ LookupsIdle /\ AccountIdle /\ SearchIdle
    /\ ResourcesIdle
    /\ provider = ProviderInitialState
    /\ config = [debugMode |-> FALSE, retryOnFailure |-> TRUE]
    /\ mounted = TRUE
    /\ initTimer = "pending"
    /\ retryTimer = NoTimer
    /\ inflight = 0
    /\ lastStep = [op |-> "mounted", init |-> "none"]
    /\ mockFallbackTaken = FALSE
    /\ retryCalls = 0
    /\ types \in TypeLists
    /\ slug = NoSlug
    /\ matchingType = Unresolved
    /\ categorized = [types |-> <<>>, done |-> FALSE, categories |-> <<>>]

SlugsNext ==
    \/ \E i \in 1..MaxTypes : SlugDerived(i)
    \/ \E s \in LinkedSlugs : SlugLinked(s)
    \/ SlugResolved

SpecSlugs == SlugsInit /\ [][SlugsNext]_vars

\* ============================================ categorizeResourceTypes ====
\* AccountDetails.tsx:693-750.  The result, an object, is the sequence of its
\* keys in Object.keys order, each with its member list.

\* The characters of the model's resource types, by UTF-16 code unit.
CodeUnits ==
    <<"1", "2", ":", "A", "F", "_", "a", "b", "c", "d", "e", "f", "g", "h",
      "i", "j", "k", "l", "m", "n", "o", "p", "r", "s", "t", "u", "v", "w",
      "x">>
CodeUnit(ch) == CHOOSE i \in 1..Len(CodeUnits) : CodeUnits[i] = ch

\* The order of Array.prototype.sort without a comparator, on strings.
RECURSIVE Precedes(_, _)
Precedes(a, b) ==
    IF a = <<>> THEN b # <<>>
    ELSE IF b = <<>> THEN FALSE
    ELSE IF Head(a) = Head(b) THEN Precedes(Tail(a), Tail(b))
    ELSE CodeUnit(Head(a)) < CodeUnit(Head(b))

RECURSIVE sort(_)
sort(list) ==
    IF list = <<>> THEN <<>>
    ELSE LET rest == sort(Tail(list))
             before == SelectSeq(rest, LAMBDA m : ~Precedes(Head(list), m))
             after == SelectSeq(rest, LAMBDA m : Precedes(Head(list), m))
         IN  before \o <<Head(list)>> \o after

\* The substrings of lines 703-719.
Receipts == <<"r", "e", "c", "e", "i", "p", "t", "s">>
FeeMakerModule == <<"f", "e", "e", "_", "m", "a", "k", "e", "r">>
AccountWord == <<"a", "c", "c", "o", "u", "n", "t">>
PledgeAccounts ==
    <<"p", "l", "e", "d", "g", "e", "_", "a", "c", "c", "o", "u", "n", "t",
      "s">>
Coin == <<"c", "o", "i", "n">>
Wallet == <<"w", "a", "l", "l", "e", "t">>
Stake == <<"s", "t", "a", "k", "e">>
Validator == <<"v", "a", "l", "i", "d", "a", "t", "o", "r">>
Jail == <<"j", "a", "i", "l">>
ProofOfFee == <<"p", "r", "o", "o", "f", "_", "o", "f", "_", "f", "e", "e">>
Pledge == <<"p", "l", "e", "d", "g", "e">>
Vouch == <<"v", "o", "u", "c", "h">>
Ancestry == <<"a", "n", "c", "e", "s", "t", "r", "y">>

\* Mutant: the Validating rule is tried before the Assets rule.
categoryOfValidatingFirst(type) ==
    LET lowerType == toLowerCase(type)
    IN  IF \/ includes(lowerType, Receipts)
           \/ includes(lowerType, FeeMakerModule)
           \/ /\ includes(lowerType, AccountWord)
              /\ ~includes(lowerType, PledgeAccounts)
        THEN "Account"
        ELSE IF \/ includes(lowerType, Stake)
                \/ includes(lowerType, Validator)
                \/ includes(lowerType, Jail)
                \/ includes(lowerType, ProofOfFee)
        THEN "Validating"
        ELSE IF includes(lowerType, Coin) \/ includes(lowerType, Wallet)
        THEN "Assets"
        ELSE IF \/ includes(lowerType, Pledge)
                \/ includes(lowerType, Vouch)
                \/ includes(lowerType, Ancestry)
        THEN "Social"
        ELSE "Other"

\* Lines 699-723: the category a type is mapped to.
categoryOf(type) ==
    LET lowerType == toLowerCase(type)
    IN  IF \/ includes(lowerType, Receipts)
           \/ includes(lowerType, FeeMakerModule)
           \/ /\ includes(lowerType, AccountWord)
              /\ ~includes(lowerType, PledgeAccounts)
        THEN "Account"
        ELSE IF includes(lowerType, Coin) \/ includes(lowerType, Wallet)
        THEN "Assets"
        ELSE IF \/ includes(lowerType, Stake)
                \/ includes(lowerType, Validator)
                \/ includes(lowerType, Jail)
                \/ includes(lowerType, ProofOfFee)
        THEN "Validating"
        ELSE IF \/ includes(lowerType, Pledge)
                \/ includes(lowerType, Vouch)
                \/ includes(lowerType, Ancestry)
        THEN "Social"
        ELSE "Other"

\* Lines 695-723: the keys of categoryMapping in the order of the Map, which
\* is the order of each type's first occurrence in the list.
categoryMapping(list) == uniqueSegments(list)

\* Lines 726-732: the types grouped by category; a category is created when
\* its first type is pushed.
RECURSIVE groupByCategory(_)
groupByCategory(keys) ==
    IF keys = <<>> THEN <<>>
    ELSE LET before == groupByCategory(SubSeq(keys, 1, Len(keys) - 1))
             type == keys[Len(keys)]
             category == categoryOf(type)
         IN  IF \E k \in 1..Len(before) : before[k].name = category
             THEN [k \in 1..Len(before) |->
                     IF before[k].name = category
                     THEN [before[k] EXCEPT !.members = Append(@, type)]
                     ELSE before[k]]
             ELSE Append(before, [name |-> category, members |-> <<type>>])

\* Lines 735-737: each category's members sorted.
sortMembers(categories) ==
    [k \in 1..Len(categories) |->
        [categories[k] EXCEPT !.members = sort(@)]]

\* Mutant: 'Other' is deleted and not added back.
withoutOther(categories) ==
    SelectSeq(categories, LAMBDA c : c.name # "Other")

\* Lines 740-749: an empty 'Other' is deleted; 'Other' is deleted and added
\* again, which makes it the last key, when it is not the only key.
otherLast(categories) ==
    LET kept == SelectSeq(categories,
                          LAMBDA c : c.name # "Other" \/ c.members # <<>>)
        other == SelectSeq(kept, LAMBDA c : c.name = "Other")
    IN  IF other # <<>> /\ Len(kept) > 1
        THEN SelectSeq(kept, LAMBDA c : c.name # "Other") \o other
        ELSE kept

\* categorizeResourceTypes(types), lines 693-750.
categorizeResourceTypes(list) ==
    otherLast(sortMembers(groupByCategory(categoryMapping(list))))

\* The resource types of the model: for each rule a type that it alone
\* matches and a type that an earlier rule takes from it.
CategorizedTypes ==
    { <<"A", "c", "c", "o", "u", "n", "t">>,
      <<"p", "l", "e", "d", "g", "e", "_",
        "a", "c", "c", "o", "u", "n", "t", "s">>,
      <<"c", "o", "i", "n">>,
      <<"s", "t", "a", "k", "e", "_", "c", "o", "i", "n">>,
      <<"j", "a", "i", "l">>,
      <<"v", "o", "u", "c", "h", "_", "j", "a", "i", "l">>,
      <<"v", "o", "u", "c", "h">>,
      <<"x">>,
      <<"f", "e", "e", "_", "m", "a", "k", "e", "r">>,
      <<"w", "a", "l", "l", "e", "t">> }

CategorizedLists ==
    UNION { [1..n -> CategorizedTypes] : n \in 0..MaxCategorized }

\* Line 693: categorizeResourceTypes is applied to the list.
Categorize ==
    /\ ~categorized.done
    /\ categorized' = [categorized EXCEPT
          !.done = TRUE,
          !.categories = categorizeResourceTypes(categorized.types)]
    /\ UNCHANGED <<types, slug, matchingType, outsideSlugs>>

CategoriesInit ==
    /\ HookIdle /\ LookupsIdle /\ AccountIdle /\ SearchIdle
    /\ ResourcesIdle
    /\ provider = ProviderInitialState
    /\ config = [debugMode |-> FALSE, retryOnFailure |-> TRUE]
    /\ mounted = TRUE
    /\ initTimer = "pending"
    /\ retryTimer = NoTimer
    /\ inflight = 0
    /\ lastStep = [op |-> "mounted", init |-> "none"]
    /\ mockFallbackTaken = FALSE
    /\ retryCalls = 0
    /\ types = <<>>
    /\ slug = NoSlug
    /\ matchingType = Unresolved
    /\ categorized \in [types : CategorizedLists, done : {FALSE},
                        categories : {<<>>}]

CategoriesNext == Categorize

SpecCategories == CategoriesInit /\ [][CategoriesNext]_vars

\* ============================================ the active resource type ===
\* AccountDetails.tsx:353-489 and 632-645.  A step is a handler or a delivery
\* of account data together with the render and the effects that follow it.

\* `[^<]+` of line 444: the characters before the first "<".
RECURSIVE beforeAngle(_)
beforeAngle(s) ==
    IF s = <<>> \/ Head(s) = "<" THEN <<>>
    ELSE <<Head(s)>> \o beforeAngle(Tail(s))

\* Lines 443-455: what one resource adds to the set of types, `module::Type`
\* by the regular expression or the last two segments, or nothing.  The
\* segments of the model's types are not empty.
moduleAndType(typeStr) ==
    LET parts == split(typeStr, Colons)
        afterModule == Len(parts[1]) + Len(parts[2]) + 2 * Len(Colons) + 1
        typeName == beforeAngle(SubSeq(typeStr, afterModule, Len(typeStr)))
    IN  IF Len(parts) >= 3 /\ typeName # <<>>
        THEN <<parts[2] \o Colons \o typeName>>
        ELSE IF Len(parts) >= 2
        THEN <<parts[Len(parts) - 1] \o Colons \o parts[Len(parts)]>>
        ELSE <<>>

RECURSIVE typesOf(_)
typesOf(resources) ==
    IF resources = <<>> THEN <<>>
    ELSE moduleAndType(Head(resources)) \o typesOf(Tail(resources))

\* The useMemo of lines 407-468: the list it returns and dataLoadedRef.current
\* as it leaves it.
resourceTypesMemo(resources) ==
    IF resources = <<>>
    THEN [list |-> <<>>, loaded |-> FALSE]
    ELSE [list |-> sort(uniqueSegments(typesOf(resources))), loaded |-> TRUE]

\* The effect of lines 471-489: activeResourceType after it has run.
activeTypeEffect(list, loaded, param, active) ==
    IF ~loaded \/ list = <<>> THEN active
    ELSE IF param.given /\ param.text # <<>>
    THEN LET found == slugToResourceType(list, param.text)
         IN  IF ~found.isNull /\ found.text # <<>> THEN found
             ELSE [isNull |-> FALSE, text |-> list[1]]
    ELSE [isNull |-> FALSE, text |-> list[1]]

\* The effect of lines 471-489 passes its guard of line 472.
EffectSets(list, loaded) == loaded /\ list # <<>>

\* useAccount returns a new account object: the memo of line 407 is computed
\* again, its list is a new array, and the effect of line 471 runs.
AccountDataArrives(resources) ==
    LET memo == resourceTypesMemo(resources)
    IN  /\ accountData < MaxDeliveries
        /\ accountData' = accountData + 1
        /\ resourceTypes' = memo.list
        /\ dataLoadedRef' = memo.loaded
        /\ activeResourceType' =
              activeTypeEffect(memo.list, memo.loaded, resourceParam,
                               activeResourceType)
        /\ selection' = IF EffectSets(memo.list, memo.loaded)
                        THEN "effect" ELSE selection
        /\ UNCHANGED <<resourceParam, outsideResources>>

\* The resource slug of the URL changes, line 353: the effect runs.
ResourceParamChanges(param) ==
    /\ param # resourceParam
    /\ resourceParam' = param
    /\ activeResourceType' =
          activeTypeEffect(resourceTypes, dataLoadedRef, param,
                           activeResourceType)
    /\ selection' = IF EffectSets(resourceTypes, dataLoadedRef)
                    THEN "effect" ELSE selection
    /\ UNCHANGED <<accountData, resourceTypes, dataLoadedRef,
                   outsideResources>>

\* handleResourceTypeChange, lines 632-645, from the list of types on display.
\* No dependency of the effect changes, it does not run.
handleResourceTypeChange(resourceType) ==
    /\ \E i \in 1..Len(resourceTypes) : resourceTypes[i] = resourceType
    /\ activeResourceType' = [isNull |-> FALSE, text |-> resourceType]
    /\ selection' = "user"
    /\ UNCHANGED <<accountData, resourceTypes, dataLoadedRef, resourceParam,
                   outsideResources>>

\* The resources of the model: two types, a generic instance of the first,
\* and a type without "::".
ResourceKinds ==
    { TypeOf(<<"1">>, <<"a">>, <<"A">>),
      TypeOf(<<"1">>, <<"b">>, <<"A">>),
      TypeOf(<<"1">>, <<"a">>, <<"A">>)
          \o <<"<">> \o TypeOf(<<"1">>, <<"b">>, <<"A">>) \o <<">">>,
      <<"a", "b">> }

ResourceLists ==
    UNION { [1..n -> ResourceKinds] : n \in 0..MaxResources }

\* The types a resource of the model can show as.
ShownTypes == { <<"a">> \o Colons \o <<"A">>, <<"b">> \o Colons \o <<"A">> }

\* The resource slugs of the URL: none, those of the two types, an unknown one.
ResourceParams ==
    { NoParam,
      [given |-> TRUE, text |-> <<"a", "-", "a">>],
      [given |-> TRUE, text |-> <<"b", "-", "a">>],
      [given |-> TRUE, text |-> <<"x">>] }

\* The screen before useAccount has returned an account; the slug of a link
\* arrives as a change of the route's parameters.
ResourcesInit ==
    /\ HookIdle /\ LookupsIdle /\ AccountIdle /\ SearchIdle /\ SlugsIdle
    /\ provider = ProviderInitialState
    /\ config = [debugMode |-> FALSE, retryOnFailure |-> TRUE]
    /\ mounted = TRUE
    /\ initTimer = "pending"
    /\ retryTimer = NoTimer
    /\ inflight = 0
    /\ lastStep = [op |-> "mounted", init |-> "none"]
    /\ mockFallbackTaken = FALSE
    /\ retryCalls = 0
    /\ ResourcesIdle

ResourcesNext ==
    \/ \E resources \in ResourceLists : AccountDataArrives(resources)
    \/ \E param \in ResourceParams : ResourceParamChanges(param)
    \/ \E resourceType \in ShownTypes : handleResourceTypeChange(resourceType)

SpecResources == ResourcesInit /\ [][ResourcesNext]_vars

\* ============================================================ claims =====

\* ---- useBlockchain, under SpecBlockchain ----

\* A refreshData invocation whose awaited call threw has just settled.
FailedCycleSettles ==
    lastSettled'.cycle # lastSettled.cycle /\ lastSettled'.failed

\* The invocation that just settled failed at sdk.getTransactions.
TransactionsRejectSettles ==
    FailedCycleSettles /\ lastSettled'.at = "getTransactions"

StatsOfCycle(cycle) ==
    [blockHeight |-> cycle, epoch |-> cycle, chainId |-> cycle]

\* C1: at most one refreshData execution is in flight at any time (a call made
\* while an earlier one has not reached its finally block does not fetch).
C1_AtMostOneRefreshInFlight == Cardinality(InFlightCalls) <= 1

\* C3: when a sub-fetch of a refresh cycle rejects, the store error is set (to
\* the Error's message) and the step leaves store.transactions and store.stats
\* as they were; once set, neither goes back to its initial empty value.
C3_FailureKeepsCachedData ==
    /\ [][ FailedCycleSettles =>
             /\ blockchainStore'.error # Null
             /\ lastSettled'.thrown.isError =>
                  blockchainStore'.error = lastSettled'.thrown.message
             /\ blockchainStore'.transactions = blockchainStore.transactions
             /\ blockchainStore'.stats = blockchainStore.stats ]_vars
    /\ [][ /\ blockchainStore.transactions # 0 =>
                blockchainStore'.transactions # 0
           /\ \A f \in DOMAIN blockchainStore.stats :
                blockchainStore.stats[f] # 0 => blockchainStore'.stats[f] # 0
         ]_vars

\* C3's case: a cycle failed while the store held a list and stats of an
\* earlier cycle.
C3_FailedWithCachedData ==
    /\ lastSettled.failed
    /\ lastSettled.at \in StatsGetters
    /\ blockchainStore.transactions # 0
    /\ blockchainStore.stats.blockHeight # 0
    /\ blockchainStore.error # Null

\* C4 as stated: a cycle whose getTransactions rejects leaves the stats updated
\* to that cycle's ledger values, the list unchanged and an error recorded.
C4_StatsUpdatedWhenTransactionsReject ==
    [][ TransactionsRejectSettles =>
          /\ blockchainStore'.stats = StatsOfCycle(lastSettled'.cycle)
          /\ blockchainStore'.transactions = blockchainStore.transactions
          /\ blockchainStore'.error # Null ]_vars

\* C4 amended: a cycle whose getTransactions rejects never calls a stats
\* getter and leaves the stats and the list unchanged, with an error recorded.
C4_TransactionsRejectLeavesStats ==
    [][ TransactionsRejectSettles =>
          /\ \A g \in StatsGetters : <<lastSettled'.cycle, g>> \notin sdkCalls'
          /\ blockchainStore'.stats = blockchainStore.stats
          /\ blockchainStore'.transactions = blockchainStore.transactions
          /\ blockchainStore'.error # Null ]_vars

\* C4's case: getTransactions rejected in a cycle later than the one whose
\* stats the store holds.
C4_TransactionsRejectedOverOldStats ==
    /\ lastSettled.failed /\ lastSettled.at = "getTransactions"
    /\ blockchainStore.stats.blockHeight # 0
    /\ blockchainStore.stats.blockHeight < lastSettled.cycle
    /\ blockchainStore.error # Null

\* C5 as stated: the list and the three stats fields change together, so every
\* state holds them from one and the same cycle.
C5_CycleWriteAtomic ==
    /\ blockchainStore.stats.blockHeight = blockchainStore.transactions
    /\ blockchainStore.stats.epoch = blockchainStore.transactions
    /\ blockchainStore.stats.chainId = blockchainStore.transactions

\* C5 amended: the three stats fields are written together, so every state
\* holds blockHeight, epoch and chainId of one cycle (the list is written in a
\* step of its own and may be of another cycle).
C5_StatsFieldsOfOneCycle ==
    /\ blockchainStore.stats.blockHeight = blockchainStore.stats.epoch
    /\ blockchainStore.stats.epoch = blockchainStore.stats.chainId

\* C5's case: stats of one cycle are in the store next to the list of a later
\* cycle.
C5_ListNewerThanStats ==
    /\ blockchainStore.stats.blockHeight # 0
    /\ blockchainStore.transactions > blockchainStore.stats.blockHeight

\* C6: the store's isLoading is true exactly when a refreshData is in flight.
C6_LoadingIffRefreshInFlight ==
    blockchainStore.isLoading <=> (InFlightCalls # {})

\* C7: the promise of refreshData never rejects, and a thrown value is
\* recorded in the store error: the Error's message, or 'Unknown error
\* occurred' for a value that is not an Error.
C7_RefreshNeverRejects ==
    /\ lastSettled.outcome # "rejected"
    /\ lastSettled.failed =>
         blockchainStore.error =
            IF lastSettled.thrown.isError THEN lastSettled.thrown.message
            ELSE "Unknown error occurred"

\* C7's case: an awaited SDK call threw a value that is not an Error.
C7_NonErrorThrown ==
    /\ lastSettled.failed /\ ~lastSettled.thrown.isError
    /\ lastSettled.outcome = "resolved"

\* ---- SDK lookups, under SpecLookups ----

AccountRequests ==
    {r \in pending : r.method \in {"account", "getAccount",
                                   "getAccountResources"}}

\* C2: concurrent account fetches for one address share one client request:
\* no two callers have a client request for the same address in flight.
C2_OneRequestPerAddress ==
    \A r1, r2 \in AccountRequests :
        r1.param = r2.param => r1.caller = r2.caller

\* C8: a lookup of a hash that normalizeTransactionHash maps to null returns
\* null at once and adds no client request, and a row press with such a hash
\* leaves the location as it is.
C8_NullHashNoLookupNoNavigation ==
    [][ /\ \A c \in Callers :
             ( /\ callers[c].pc = "idle"
               /\ callers'[c].method = "getTransactionByHash"
               /\ normalizeTransactionHash(callers'[c].arg).isNull )
             => /\ callers'[c].pc = "done"
                /\ callers'[c].result = NullResult
                /\ pending' = pending
        /\ ( /\ lastPress' # lastPress
             /\ normalizeTransactionHash(lastPress'.hash).isNull )
             => /\ location' = location
                /\ ~lastPress'.navigated ]_vars

\* ---- SdkProvider, under SpecSdk ----

\* An initializeSdk attempt of the mounted provider has just failed.
AttemptFailed == lastStep.init = "failed" /\ mounted

C10_ProductionFailureEndsUninitialized ==
    (AttemptFailed /\ ~config.debugMode) =>
        /\ ~provider.isInitialized
        /\ provider.sdk = Null
        /\ provider.error # Null
        /\ ~provider.isInitializing
        /\ config.retryOnFailure => retryTimer = TimerIn(RetryDelay)

\* ---- useBlockchain: the SDK-ready refresh, under SpecBlockchain ----

\* The step in which the context turns to isInitialized and not isInitializing.
BecomesReady ==
    /\ ~(provider.isInitialized /\ ~provider.isInitializing)
    /\ provider'.isInitialized /\ ~provider'.isInitializing

\* C11 as stated: the step in which the SDK becomes ready calls refreshData
\* once, and that call fetches (it calls sdk.getTransactions).
C11_ReadyRefreshFetches ==
    [][ BecomesReady =>
          /\ lastRefresh' = [source |-> "sdkReady", fetched |-> TRUE,
                             cycle |-> nextCycle]
          /\ <<nextCycle, "getTransactions">> \in sdkCalls' \ sdkCalls ]_vars

\* C11 amended: the step in which the SDK becomes ready calls refreshData once;
\* the call fetches exactly when the hook has no refresh flagged in flight
\* (isLoading and fetchRequested both false), which is so the first time the
\* SDK becomes ready.
C11_ReadyRefreshUnlessLoading ==
    [][ BecomesReady =>
          /\ lastRefresh'.source = "sdkReady"
          /\ lastRefresh'.fetched <=> ~(hook.isLoading \/ hook.fetchRequested)
          /\ lastRefresh'.fetched =>
                /\ lastRefresh'.cycle = nextCycle
                /\ <<nextCycle, "getTransactions">> \in sdkCalls' \ sdkCalls
                /\ blockchainStore'.isLoading
          /\ ~lastRefresh'.fetched => sdkCalls' = sdkCalls
          /\ sdkCalls = {} => lastRefresh'.fetched ]_vars

\* C11's case: the SDK became ready and the refresh of that step fetched.
C11_ReadyRefreshFetched ==
    /\ provider.isInitialized /\ ~provider.isInitializing
    /\ lastRefresh = [source |-> "sdkReady", fetched |-> TRUE,
                      cycle |-> nextCycle - 1]
    /\ \E c \in InFlightCalls : calls[c].cycle = lastRefresh.cycle

\* C14: a response that arrives after the consumer of the hook has unmounted
\* is discarded: the store's list and stats are not written.
C14_LateResponseDiscarded ==
    [][ ~hookMounted =>
          /\ blockchainStore'.transactions = blockchainStore.transactions
          /\ blockchainStore'.stats = blockchainStore.stats ]_vars

\* ---- AccountDetailsScreen, under SpecAccount ----

\* C12: at most one polling interval is live, it is the one refreshTimerRef
\* holds, and a screen that is unmounted or not focused has no live interval
\* and a null refreshTimerRef.
C12_OnePollingTimer ==
    /\ Cardinality(intervals) <= 1
    /\ \A i \in intervals : i.id = refreshTimerRef
    /\ (~screen.mounted \/ ~screen.isFocused) =>
          (intervals = {} /\ refreshTimerRef = 0)

\* C12's case: a screen that was polling has just lost focus.
C12_PollingStoppedOnBlur ==
    /\ lastScreenStep.op = "focus"
    /\ screen.mounted /\ ~screen.isFocused /\ screen.address # NoAddress
    /\ intervals = {} /\ refreshTimerRef = 0

\* C13: on a screen that is unmounted or not focused neither the interval
\* callback nor the 200 ms timeout of startPolling starts a refresh.
C13_NoScheduledRefreshAfterBlur ==
    [][ ( /\ lastScreenStep'.op \in {"startTimeout", "interval"}
          /\ (~screen.mounted \/ ~screen.isFocused) )
        => outstanding' = outstanding ]_vars

\* C15: a change of the app state to active from inactive or background, with
\* the screen focused and given an address, starts exactly one refreshAccount
\* and leaves the polling interval running; a change that does not come from
\* inactive or background to active starts none.
C15_ForegroundRefreshOnce ==
    [][ appState' # appState =>
          /\ ( /\ appState \in {"inactive", "background"}
               /\ appState' = "active"
               /\ screen.isFocused /\ screen.address # NoAddress )
             => /\ Len(outstanding') = Len(outstanding) + 1
                /\ intervals' = intervals /\ intervals # {}
          /\ ~(appState \in {"inactive", "background"} /\ appState' = "active")
             => outstanding' = outstanding ]_vars

\* C16: a refresh of the screen (interval tick, start-up timeout, Retry,
\* onRefresh, foreground resume) is started only when no refresh of the screen
\* is outstanding.
C16_NoRefreshWhileOutstanding ==
    [][ Len(outstanding') > Len(outstanding) => outstanding = <<>> ]_vars

\* A run of handleSearch of caller c ends in this step.
SearchEnding(c) == searches[c].pc # "idle" /\ searches'[c].pc = "idle"

TimesCalled(made, method) ==
    Cardinality({i \in 1..Len(made) : made[i] = method})

\* C17: a search tries the account first and the transaction second:
\* sdk.getAccount is called only for a trimmed query of address format; a run
\* ends either on an account found, navigating to /account/{query} with no
\* call of getTransactionByHash, or after getTransactionByHash has been called,
\* navigating to /tx/{query} exactly when it returned a transaction.
C17_AccountThenTransaction ==
    [][ \A c \in Callers :
          /\ TimesCalled(searches'[c].calls, "getAccount") > 0
                => isValidAddressFormat(searches'[c].query)
          /\ SearchEnding(c) =>
                \/ /\ searches[c].pc = "account"
                   /\ callers[c].result.kind = "account"
                   /\ searches[c].calls = <<"getAccount">>
                   /\ location' = [path |-> "/account",
                                   hash |-> searches[c].query]
                \/ /\ searches[c].pc = "transaction"
                   /\ TimesCalled(searches[c].calls, "getTransactionByHash") = 1
                   /\ IF callers[c].result.kind = "transaction"
                      THEN location' = [path |-> "/tx",
                                        hash |-> searches[c].query]
                      ELSE location' = location ]_vars

\* C17 witness: a search whose account lookup found nothing has gone on to the
\* transaction lookup and navigated to the transaction.
C17_FellBackToTransaction ==
    /\ lastSearch.outcome = "transaction"
    /\ lastSearch.calls = <<"getAccount", "getTransactionByHash">>
    /\ location.path = "/tx"

C19_SlugRoundTrip ==
    ( /\ matchingType.resolved
      /\ slug.from # 0
      /\ includes(types[slug.from], Colons) )
    => /\ ~matchingType.isNull
       /\ matchingType.text = types[slug.from]

\* The first candidate, in input order, of the highest-priority rule that
\* some candidate satisfies: exact slug, legacy alias, keyword subset,
\* substring; 0 when no rule matches a candidate.
FirstByPriority(list, s) ==
    LET exact == find(list, [i \in 1..Len(list) |-> ExactMatch(list[i], s)])
        legacy ==
            find(list, [i \in 1..Len(list) |-> LegacyMatch(list[i], s)])
        keyword ==
            find(list, [i \in 1..Len(list) |-> KeywordMatch(list[i], s)])
        partial ==
            find(list, [i \in 1..Len(list) |-> PartialMatch(list[i], s)])
    IN  IF exact # 0 THEN exact
        ELSE IF legacy # 0 THEN legacy
        ELSE IF keyword # 0 THEN keyword
        ELSE partial

\* C20: slugToResourceType returns the first candidate, in input order, of the
\* highest-priority rule that matches (exact slug, then legacy alias, then
\* keyword subset, then substring); in particular the first candidate whose
\* own slug is the slug, when there is one.
C20_PriorityOrder ==
    ( matchingType.resolved /\ slug.text # <<>> )
    => /\ matchingType.isNull = (FirstByPriority(types, slug.text) = 0)
       /\ ~matchingType.isNull
            => matchingType.text = types[FirstByPriority(types, slug.text)]

\* The kebab-case of a camel- or Pascal-case name: its characters lower-cased,
\* with a hyphen before each capital but the first character.
RECURSIVE KebabCase(_, _)
KebabCase(name, i) ==
    IF i > Len(name) THEN <<>>
    ELSE (IF IsUpperCase(name[i]) /\ i > 1 THEN Dash ELSE <<>>)
            \o <<Lower(name[i])>> \o KebabCase(name, i + 1)

\* The slug of a type of at least two "::"-separated segments: the lower-cased
\* second-to-last segment, a hyphen, the kebab-case of the last segment.
SlugOfSegments(type) ==
    LET parts == split(type, Colons)
    IN  /\ Len(parts) >= 2
        /\ slug.text = toLowerCase(parts[Len(parts) - 1]) \o Dash
                          \o KebabCase(parts[Len(parts)], 1)

\* C21 (as stated): the slug of a type with at least two "::"-separated
\* segments is module, hyphen, kebab-cased name, and the slug is empty only
\* for the empty type.
C21_SlugEmptyOnlyForEmptyInput ==
    slug.from # 0
    => /\ Len(split(types[slug.from], Colons)) >= 2
            => SlugOfSegments(types[slug.from])
       /\ slug.text = <<>> => types[slug.from] = <<>>

\* C21 (amended): the slug of a type with at least two "::"-separated segments
\* is module, hyphen, kebab-cased name; the slug is empty exactly for a type
\* of fewer than two segments.
C21_SlugOfLastTwoSegments ==
    slug.from # 0
    => IF Len(split(types[slug.from], Colons)) >= 2
       THEN SlugOfSegments(types[slug.from])
       ELSE slug.text = <<>>

\* C21 witness: the slug of a type with capitals in its module and inside its
\* name has been made.
C21_SlugOfCapitalisedType ==
    /\ slug.from # 0
    /\ types[slug.from] = TypeOf(<<"1">>, <<"F", "b">>, <<"A", "F">>)
    /\ slug.text = <<"f", "b", "-", "a", "-", "f">>

\* The strings of a list.
Elements(list) == {list[i] : i \in 1..Len(list)}

\* C22: the categories partition the input: each input type is in exactly one
\* category's member list, no member list has a string that is not in the
\* input, and the member lists together are the set of input types.
C22_CategoriesPartitionInput ==
    categorized.done
    => LET categories == categorized.categories
           input == Elements(categorized.types)
           Holding(t) == {k \in 1..Len(categories) :
                             t \in Elements(categories[k].members)}
       IN  /\ \A t \in input : Cardinality(Holding(t)) = 1
           /\ \A k \in 1..Len(categories) :
                 Elements(categories[k].members) \subseteq input
           /\ UNION {Elements(categories[k].members) :
                        k \in 1..Len(categories)} = input

\* C22 witness: a list that names one type twice, and types of two
\* categories, has been categorized.
C22_RepeatedTypeCategorized ==
    /\ categorized.done
    /\ Len(categorized.types) = 3
    /\ categorized.types[1] = categorized.types[3]
    /\ Len(categorized.categories) = 2

\* The category of a type by the ordered rules: the first rule, in the order
\* Account, Assets, Validating, Social, that its lower-cased name matches.
CategoryByRules(type) ==
    LET name == toLowerCase(type)
        rules ==
          << [category |-> "Account",
              matches |-> \/ includes(name, Receipts)
                          \/ includes(name, FeeMakerModule)
                          \/ /\ includes(name, AccountWord)
                             /\ ~includes(name, PledgeAccounts)],
             [category |-> "Assets",
              matches |-> includes(name, Coin) \/ includes(name, Wallet)],
             [category |-> "Validating",
              matches |-> \/ includes(name, Stake)
                          \/ includes(name, Validator)
                          \/ includes(name, Jail)
                          \/ includes(name, ProofOfFee)],
             [category |-> "Social",
              matches |-> \/ includes(name, Pledge)
                          \/ includes(name, Vouch)
                          \/ includes(name, Ancestry)],
             [category |-> "Other", matches |-> TRUE] >>
        first == CHOOSE r \in 1..5 :
                    rules[r].matches /\ \A q \in 1..(r - 1) : ~rules[q].matches
    IN  rules[first].category

\* C23: each member is in the category the ordered rules give it, the members
\* of a category are sorted, no category is empty, and 'Other', when present,
\* is the last category.
C23_OrderedRulesSortedOtherLast ==
    categorized.done
    => LET categories == categorized.categories
       IN  \A k \in 1..Len(categories) :
              LET members == categories[k].members
              IN  /\ members # <<>>
                  /\ \A j \in 1..Len(members) :
                        CategoryByRules(members[j]) = categories[k].name
                  /\ \A i, j \in 1..Len(members) :
                        i < j => Precedes(members[i], members[j])
                  /\ categories[k].name = "Other" => k = Len(categories)

\* C23 witness: a list whose first type is of no rule, followed by a type
\* that two rules match and a type of a third category, has been categorized.
C23_OtherMovedLast ==
    /\ categorized.done
    /\ Len(categorized.types) = 3
    /\ categorized.types[1] = <<"x">>
    /\ categorized.types[2]
          = <<"s", "t", "a", "k", "e", "_", "c", "o", "i", "n">>
    /\ Len(categorized.categories) = 3
    /\ categorized.categories[3].name = "Other"

\* The slug has a hyphen-separated segment more than once.
HasRepeatedSegment(s) ==
    Len(uniqueSegments(split(s, Dash))) < Len(split(s, Dash))

\* What the generic rules give: the candidate of FirstByPriority, or null.
ByGenericRules(list, s) ==
    LET first == FirstByPriority(list, s)
    IN  [resolved |-> TRUE, isNull |-> first = 0,
         text |-> IF first = 0 THEN <<>> ELSE list[first]]

\* C24 (as stated): a slug with a repeated segment resolves to a candidate
\* that contains every one of its de-duplicated segments, and by the generic
\* rules only when no candidate does.
C24_EveryDeduplicatedSegment ==
    ( matchingType.resolved /\ HasRepeatedSegment(slug.text) )
    => LET unique == uniqueSegments(split(slug.text, Dash))
           holding == {i \in 1..Len(types) :
                         \A k \in 1..Len(unique) :
                            ContainsSegment(types[i], unique[k])}
       IN  IF holding # {}
           THEN \E i \in holding :
                   ~matchingType.isNull /\ matchingType.text = types[i]
           ELSE matchingType = ByGenericRules(types, slug.text)

\* C24 (amended): a slug with a repeated segment resolves to the first
\* candidate, in input order, that contains the first of its de-duplicated
\* segments, in slug order, that any candidate contains; and by the generic
\* rules only when no candidate contains any of them.
C24_FirstSegmentContained ==
    ( matchingType.resolved /\ HasRepeatedSegment(slug.text) )
    => LET unique == uniqueSegments(split(slug.text, Dash))
           Holding(k) == {i \in 1..Len(types) :
                            ContainsSegment(types[i], unique[k])}
           held == {k \in 1..Len(unique) : Holding(k) # {}}
       IN  IF held # {}
           THEN LET k == CHOOSE h \in held : \A j \in held : h <= j
                    i == CHOOSE c \in Holding(k) : \A j \in Holding(k) : c <= j
                IN  ~matchingType.isNull /\ matchingType.text = types[i]
           ELSE matchingType = ByGenericRules(types, slug.text)

\* C24 witness: a slug with a repeated segment, of which the candidates
\* contain one segment and not the other, has been resolved to a candidate.
C24_RepeatedSegmentResolved ==
    /\ matchingType.resolved
    /\ slug.text = <<"a", "-", "x", "-", "a">>
    /\ ~matchingType.isNull

\* C25: over the lifetime of one provider the retry effect calls
\* initializeSdk at most once, however many initializations fail.
C25_AtMostOneAutoRetry == retryCalls <= 1

\* reinitialize() has been called on a provider that holds the real client.
ReinitializeCalled ==
    /\ lastStep.op = "reinitialize"
    /\ mounted
    /\ provider.sdkClient = "real"
    /\ ~provider.isUsingMockData

\* C26: after reinitialize() on a provider with the real client the provider
\* is eventually initialized with an sdk again, unless an initialization
\* fails or the provider unmounts.
C26_ReinitializeReestablishes ==
    [](ReinitializeCalled
         => <>(\/ provider.isInitialized /\ provider.sdk # Null
               \/ lastStep.init = "failed"
               \/ ~mounted))

\* C27: at most one initializeSdk is between its client construction and its
\* finally block.
C27_OneInitializationInFlight == inflight <= 1

\* C28: in every state of a mounted provider isInitialized implies an sdk and
\* isInitializing implies not isInitialized, and when an initializeSdk call
\* finishes isInitializing is false.
C28_ContextFlagsConsistent ==
    [][ mounted' =>
          /\ provider'.isInitialized => provider'.sdk # Null
          /\ provider'.isInitializing => ~provider'.isInitialized
          /\ lastStep'.init \in {"succeeded", "failed"}
                => ~provider'.isInitializing ]_vars

\* A run of handleSearch of caller c issues its first SDK call in this step.
SearchStarting(c) == searches[c].pc = "idle" /\ searches'[c].pc # "idle"

\* C29: no run of handleSearch that issues SDK calls starts while isSearching
\* is true, and whenever no run of handleSearch is awaiting, isSearching is
\* false.
C29_OneSearchInFlight ==
    [][ /\ \A c \in Callers : SearchStarting(c) => ~searchBar.isSearching
        /\ (\A c \in Callers : searches'[c].pc = "idle")
              => ~searchBar'.isSearching ]_vars

\* A new account object arrives whose resource types are those on display.
SameTypesDelivered ==
    /\ accountData' # accountData
    /\ resourceTypes' = resourceTypes

\* C30: a type the user chose stays active when a refresh delivers account
\* data with the same resource types.
C30_UserChoiceSurvivesRefresh ==
    [][ selection = "user" /\ SameTypesDelivered
          => activeResourceType' = activeResourceType ]_vars

====
